---- MODULE Spec2Model ----
(***************************************************************************)
(* A model of the SGP4/SDP4 propagator of src/SGP4.cpp: the SGP4 object    *)
(* (every data member of src/SGP4.h), SetTle, the two FindPosition         *)
(* overloads and everything they call.                                     *)
(*                                                                         *)
(* The program computes in IEEE doubles; the model computes in fixed       *)
(* point on TLC's 32-bit integers.  Units of the model:                    *)
(*   - dimensionless numbers, angles (rad), lengths (Earth radii), BSTAR:  *)
(*     1e-6 of the unit ("micro"; U stands for 1.0);                       *)
(*   - angular rates (rad/min): 1e-10 rad/min ("R10");                     *)
(*   - the secular rates d_ss*_: 1e-13 / min; the lunar and solar          *)
(*     periodic coefficients: 1e-9;                                        *)
(*   - resonance coefficients and the dot term xndot (rad/min^2): 1e-18;   *)
(*     the dot term xnddt (rad/min^3): 1e-21;                              *)
(*   - times: whole minutes; the period: 1e-2 min; the perigee: metres;    *)
(*   - positions: metres; velocities: mm/s.                                *)
(* The formulas keep the order of operations of the source, except where   *)
(* a comment says that a factor is applied later to stay within 32 bits;   *)
(* products and quotients are rounded toward zero at the unit of their     *)
(* result.                                                                 *)
(***************************************************************************)
EXTENDS Integers, Sequences, FiniteSets, TLC

--------------------------------------------------------------------------
(* Fixed-point arithmetic *)

U == 10 ^ 6

Abs(x) == IF x < 0 THEN -x ELSE x

Sgn(x) == IF x < 0 THEN -1 ELSE 1

\* |a| * |b| / 10^6 without leaving 32 bits (base-1000 long multiplication)
MulAbs(a, b) ==
    (a \div U) * b + (a % U) * (b \div U)
    + ((a \div 1000) % 1000) * ((b \div 1000) % 1000)
    + ((((a \div 1000) % 1000) * (b % 1000)
        + (a % 1000) * ((b \div 1000) % 1000)) * 1000
       + (a % 1000) * (b % 1000)) \div U

\* a * b for two micro-unit numbers (or one micro-unit factor and any other)
Mul(a, b) == Sgn(a) * Sgn(b) * MulAbs(Abs(a), Abs(b))

Mul3(a, b, c) == Mul(Mul(a, b), c)

\* six fractional decimal digits of r / b, for 0 <= r < b < 2^31 / 10
LongDiv(r, b) ==
    LET r1 == (r * 10) % b
        r2 == (r1 * 10) % b
        r3 == (r2 * 10) % b
        r4 == (r3 * 10) % b
        r5 == (r4 * 10) % b
    IN  ((r * 10) \div b) * 100000 + ((r1 * 10) \div b) * 10000
        + ((r2 * 10) \div b) * 1000 + ((r3 * 10) \div b) * 100
        + ((r4 * 10) \div b) * 10 + (r5 * 10) \div b

\* x / y in micro-units for 0 <= x and 0 < y < 2^31 / 10
DivSmall(x, y) == (x \div y) * U + LongDiv(x % y, y)

\* a / b for two numbers of the same unit, in micro-units (a divisor too
\* large for the long division loses its last digit, and so does a)
Div(a, b) ==
    Sgn(a) * Sgn(b)
    * (IF Abs(b) >= 200000000 THEN DivSmall(Abs(a) \div 10, Abs(b) \div 10)
       ELSE DivSmall(Abs(a), Abs(b)))

\* a * b / c for whole numbers with b, c small
MulDiv(a, b, c) ==
    Sgn(a) * ((Abs(a) \div c) * b + ((Abs(a) % c) * b) \div c)

\* integer division rounding toward zero, as a C conversion does
Quot(a, c) == IF a >= 0 THEN a \div c ELSE -((-a) \div c)

\* one step of Newton's iteration for the whole square root of x
IsqrtStep(x, y) == (y + x \div y) \div 2

\* y, or y - 1 when y is above the square root of x
IsqrtFloor(x, y) == IF y * y > x THEN y - 1 ELSE y

\* the whole square root of x > 0: Newton's iteration from above
Isqrt(x) ==
    IsqrtFloor(x,
        IsqrtStep(x, IsqrtStep(x, IsqrtStep(x, IsqrtStep(x, IsqrtStep(x,
        IsqrtStep(x, IsqrtStep(x, IsqrtStep(x, IsqrtStep(x, IsqrtStep(x,
            IF x < 256 THEN 16 ELSE IF x < 65536 THEN 256
            ELSE IF x < 16777216 THEN 4096 ELSE 46340)))))))))))

\* the second Newton step for the root of 10^6 x, from y1 and the residue
\* resid = y1^2 - 10^6 x scaled by 4 s^2 / 10^6
SqrtSecond(y1, resid) ==
    y1 - resid \div (2 * y1) - (IF resid > 0 THEN 1 ELSE 0)

\* the first Newton step from 1000 s: d and m are the quotient and the
\* remainder of 500 (x - s^2) by s
SqrtFirst(s, d, m) == SqrtSecond(1000 * s + d, d * d - 2000 * m)

\* sqrt(x) from s = Isqrt(x)
SqrtFrom(x, s) ==
    SqrtFirst(s, (500 * (x - s * s)) \div s, (500 * (x - s * s)) % s)

\* sqrt(x), micro-units: two steps of Newton's iteration for the root of
\* 10^6 x starting at 1000 Isqrt(x)
Sqrt(x) == IF x <= 0 THEN 0 ELSE SqrtFrom(x, Isqrt(x))

\* one step of Newton's iteration for the cube root, micro-units
CbrtStep(x, c) == (2 * c + Div(x, Mul(c, c))) \div 3

\* the cube root of x >= 1.0, micro-units
Cbrt(x) ==
    CbrtStep(x, CbrtStep(x, CbrtStep(x, CbrtStep(x, CbrtStep(x, CbrtStep(x,
        IF x < 8 * U THEN 2 * U ELSE IF x < 64 * U THEN 4 * U
        ELSE IF x < 512 * U THEN 8 * U ELSE 13 * U))))))

\* pow(x, 1.5), pow(x, 2), pow(x, 3), pow(x, 3.5), pow(x, 4), pow(x, 2/3)
Pow15(x) == Mul(x, Sqrt(x))
Pow2(x) == Mul(x, x)
Pow3(x) == Mul3(x, x, x)
Pow35(x) == Mul(Pow3(x), Sqrt(x))
Pow4(x) == Pow2(Pow2(x))
PowTwoThird(x) == Pow2(Cbrt(x))

PI == 3141593
TWOPI == 2 * PI
HALFPI == PI \div 2

\* fmod(x, y): the remainder with the sign of x
Fmod(x, y) == Sgn(x) * (Abs(x) % y)

\* sin on [-pi/2, pi/2] by its Taylor polynomial to x^11, x2 = x^2
SinSeries(x, x2) ==
    Mul(x, U - Quot(Mul(x2, U - Quot(Mul(x2, U - Quot(Mul(x2,
           U - Quot(Mul(x2, U - Quot(x2, 110)), 72)), 42)), 20)), 6))

SinPoly(x) == SinSeries(x, Mul(x, x))

\* an angle of (-2 pi, 2 pi) brought to [-pi, pi]
WrapPi(r) == IF r > PI THEN r - TWOPI ELSE IF r < -PI THEN r + TWOPI ELSE r

\* the angle of [-pi/2, pi/2] with the sine of w in [-pi, pi]
FoldHalfPi(w) ==
    IF w > HALFPI THEN PI - w ELSE IF w < -HALFPI THEN -PI - w ELSE w

Sin(x) == SinPoly(FoldHalfPi(WrapPi(Fmod(x, TWOPI))))

Cos(x) == Sin(Fmod(x, TWOPI) + HALFPI)

--------------------------------------------------------------------------
(* Program constants, src/SGP4.cpp:9-43 *)

AE == U
\* Q0, S0 (km) in metres; XKMPER in metres per Earth radius
Q0 == 120000
S0 == 78000
XKMPER == 6378135
\* XJ2, XJ3, XJ4 in 1e-9
XJ2 == 1082616
XJ3 == -2539
XJ4 == -1656
\* XKE = 60 / sqrt(XKMPER^3 / MU) = 0.0743669161, in R10
XKE == 743669161
\* CK2 = 0.5 * XJ2 (CK2N in 1e-9, CK2 in micro), CK4 = -0.375 * XJ4 (1e-9)
CK2N == Quot(XJ2, 2)
CK2 == Quot(CK2N, 1000)
CK4 == Quot(-3 * XJ4, 8)
\* the fourth root of QOMS2T, (Q0 - S0) / XKMPER: QOMS2T itself (1.88e-9)
\* is below the unit, so qoms24 is carried by its fourth root throughout
QOMS2T_ROOT == Div(Q0 - S0, XKMPER)
S == Mul(AE, U + Div(S0, XKMPER))
\* THDT = 4.37526908801129966e-3 rad/min, in R10
THDT == 43752691

\* rate * t: an R10 rate (or any per-minute coefficient in 1e-10) over
\* t whole minutes, in micro-units
RateT(rate, t) ==
    Sgn(rate) * Sgn(t) * (Abs(t) * (Abs(rate) \div 10000)
                          + (Abs(t) * (Abs(rate) % 10000)) \div 10000)

TWOTHIRD == Div(2, 3)

--------------------------------------------------------------------------
(* The SGP4 object, src/SGP4.h:39-265 *)

NoException == "none"

\* ResetGlobalVariables(): every member is written
ResetValues ==
    [first_run_ |-> TRUE, i_use_simple_model_ |-> FALSE,
     i_use_deep_space_ |-> FALSE,
     i_cosio_ |-> 0, i_sinio_ |-> 0, i_eta_ |-> 0, i_t2cof_ |-> 0,
     i_a3ovk2_ |-> 0, i_x1mth2_ |-> 0, i_x3thm1_ |-> 0, i_x7thm1_ |-> 0,
     i_aycof_ |-> 0, i_xlcof_ |-> 0, i_xnodcf_ |-> 0, i_c1_ |-> 0,
     i_c4_ |-> 0, i_omgdot_ |-> 0, i_xnodot_ |-> 0, i_xmdot_ |-> 0,
     n_c5_ |-> 0, n_omgcof_ |-> 0, n_xmcof_ |-> 0, n_delmo_ |-> 0,
     n_sinmo_ |-> 0, n_d2_ |-> 0, n_d3_ |-> 0, n_d4_ |-> 0,
     n_t3cof_ |-> 0, n_t4cof_ |-> 0, n_t5cof_ |-> 0,
     d_gsto_ |-> 0, d_zmol_ |-> 0, d_zmos_ |-> 0,
     d_resonance_flag_ |-> FALSE, d_synchronous_flag_ |-> FALSE,
     d_sse_ |-> 0, d_ssi_ |-> 0, d_ssl_ |-> 0, d_ssg_ |-> 0, d_ssh_ |-> 0,
     d_se2_ |-> 0, d_si2_ |-> 0, d_sl2_ |-> 0, d_sgh2_ |-> 0, d_sh2_ |-> 0,
     d_se3_ |-> 0, d_si3_ |-> 0, d_sl3_ |-> 0, d_sgh3_ |-> 0, d_sh3_ |-> 0,
     d_sl4_ |-> 0, d_sgh4_ |-> 0, d_ee2_ |-> 0, d_e3_ |-> 0, d_xi2_ |-> 0,
     d_xi3_ |-> 0, d_xl2_ |-> 0, d_xl3_ |-> 0, d_xl4_ |-> 0, d_xgh2_ |-> 0,
     d_xgh3_ |-> 0, d_xgh4_ |-> 0, d_xh2_ |-> 0, d_xh3_ |-> 0,
     d_d2201_ |-> 0, d_d2211_ |-> 0, d_d3210_ |-> 0, d_d3222_ |-> 0,
     d_d4410_ |-> 0, d_d4422_ |-> 0, d_d5220_ |-> 0, d_d5232_ |-> 0,
     d_d5421_ |-> 0, d_d5433_ |-> 0, d_del1_ |-> 0, d_del2_ |-> 0,
     d_del3_ |-> 0,
     d_xfact_ |-> 0, d_xlamo_ |-> 0, d_xli_ |-> 0, d_xni_ |-> 0,
     d_atime_ |-> 0, d_xndot_0_ |-> 0, d_xnddt_0_ |-> 0, d_xldot_0_ |-> 0,
     d_xndot_t_ |-> 0, d_xnddt_t_ |-> 0, d_xldot_t_ |-> 0,
     mean_anomoly_ |-> 0, ascending_node_ |-> 0, argument_perigee_ |-> 0,
     eccentricity_ |-> 0, inclination_ |-> 0, mean_motion_ |-> 0,
     bstar_ |-> 0, recovered_semi_major_axis_ |-> 0,
     recovered_mean_motion_ |-> 0, perigee_ |-> 0, period_ |-> 0,
     epoch_ |-> 0]

Members == DOMAIN ResetValues

\* the members declared mutable (src/SGP4.h:153-155, 165-167)
IntegratorMembers ==
    {"d_xli_", "d_xni_", "d_atime_", "d_xndot_t_", "d_xnddt_t_", "d_xldot_t_"}

\* s with the members named in u (all of them members of s) assigned
Assign(s, u) == u @@ s

\* The epochs of the element sets: day 100 and half a day later
Epoch0 == 100 * 1440
Epoch1 == Epoch0 + 1440 \div 2

\* Images of the memory an SGP4 object is constructed in: the constructor
\* initialises no member, so each member holds whatever the image holds
UninitialisedMemory ==
    {[ResetValues EXCEPT !.epoch_ = Epoch0],
     [ResetValues EXCEPT !.epoch_ = Epoch0, !.i_use_deep_space_ = TRUE,
                         !.d_synchronous_flag_ = TRUE],
     [ResetValues EXCEPT !.epoch_ = Epoch1, !.i_use_deep_space_ = TRUE,
                         !.d_resonance_flag_ = TRUE,
                         !.d_atime_ = 720, !.d_xli_ = 1]}

\* SGP4::SGP4(): only first_run_ is written
NewSGP4 == {Assign(m, [first_run_ |-> TRUE]) : m \in UninitialisedMemory}

\* A reset that spares the members FindPosition writes
ResetKeepingIntegrator(s) ==
    Assign(s, [f \in Members \ IntegratorMembers |-> ResetValues[f]])

\* the coefficients of the two resonances (src/SGP4.cpp:1277-1279)
ResonanceCoefficients ==
    {"d_d2201_", "d_d2211_", "d_d3210_", "d_d3222_", "d_d4410_", "d_d4422_",
     "d_d5220_", "d_d5232_", "d_d5421_", "d_d5433_"}

SynchronousCoefficients == {"d_del1_", "d_del2_", "d_del3_"}

\* A reset that spares the coefficients of the resonances
ResetKeepingCoefficients(s) ==
    Assign(s, [f \in Members \ (ResonanceCoefficients
                                   \cup SynchronousCoefficients)
                 |-> ResetValues[f]])

\* SGP4::ResetGlobalVariables
ResetGlobalVariables(s) == Assign(s, ResetValues)

--------------------------------------------------------------------------
(* Collaborators outside src/: Globals, Julian, Tle, Eci *)

\* Globals::Fmod2p: reduction of an angle to [0, 2 pi)
NonNegativeAngle(r) == IF r < 0 THEN r + TWOPI ELSE r

Fmod2p(x) == NonNegativeAngle(Fmod(x, TWOPI))

\* A Julian date is held as whole minutes since 1900 January 1, 12h UT.
\* Julian::FromJan1_12h_1900: days since then, in micro-days
FromJan1_12h_1900(date) == MulDiv(date, U, 1440)

\* Julian::ToGreenwichSiderealTime: the sidereal angle, in [0, 2 pi)
ToGreenwichSiderealTime(date) == Fmod2p(1753368 + RateT(THDT, date))

\* Julian::SpanMin: this date minus the other, in minutes
SpanMin(date, other) == date - other

\* Julian::AddMin
AddMin(date, minutes) == date + minutes

\* Julian::Julian()
JulianDefault == 0

--------------------------------------------------------------------------
(* Initialisation, src/SGP4.cpp:52-243 and 608-938 *)


\* atan on [-1, 1], by the polynomial of Abramowitz & Stegun 4.4.49
AtanSeries(x, x2) ==
    Mul(x, 999866 + Mul(x2, -330299 + Mul(x2, 180141
             + Mul(x2, -85133 + Mul(x2, 20835)))))

AtanPoly(x) == AtanSeries(x, Mul(x, x))

\* atan2(y, x) for |x| >= |y| from a = atan(y / x), and for |x| < |y|
\* from a = atan(x / y)
AtanFlat(a, y, x) == IF x > 0 THEN a ELSE IF y >= 0 THEN a + PI ELSE a - PI

AtanSteep(a, y) == IF y > 0 THEN HALFPI - a ELSE -HALFPI - a

\* atan2 of <cmath>, with atan2(0, 0) = 0
Atan2(y, x) ==
    IF x = 0 /\ y = 0 THEN 0
    ELSE IF Abs(x) >= Abs(y) THEN AtanFlat(AtanPoly(Div(y, x)), y, x)
    ELSE AtanSteep(AtanPoly(Div(x, y)), y)

ZNS == 119459
C1SS == 29864797
ZES == 16750
ZNL == 1583522
C1L == 4796807
ZEL == 54900
ZCOSIS == 917449
ZSINI == 397854
ZSINGS == -980885
ZCOSGS == 194591
Q22 == 1789168
Q31 == 2146075
Q33 == 221230
ROOT22 == 1789168
ROOT32 == 373938
ROOT44 == 7364
ROOT52 == 114286
ROOT54 == 2177

\* The sun, src/SGP4.cpp:674-682.  zn in R10, cc in 1e-13, the rest micro.
SolarBody(cosq, sinq) ==
    [zcosg |-> ZCOSGS, zsing |-> ZSINGS, zcosi |-> ZCOSIS, zsini |-> ZSINI,
     zcosh |-> cosq, zsinh |-> sinq, cc |-> C1SS, zn |-> ZNS, ze |-> ZES]

\* LunarBody, step 5 of 5: zx
LunarBody4(d_day_, cosq, sinq, l) ==
    {[zcosg |-> Cos(n.zx), zsing |-> Sin(n.zx), zcosi |-> n.zcosil,
      zsini |-> n.zsinil, zcosh |-> Mul(n.zcoshl, cosq) + Mul(n.zsinhl, sinq),
      zsinh |-> Mul(sinq, n.zcoshl) - Mul(cosq, n.zsinhl),
      cc |-> C1L, zn |-> ZNL, ze |-> ZEL]
        : n \in {
        [zx |-> Fmod(l.gam + Atan2(Div(Mul(397854, l.stem), l.zsinil),
                                   Mul(l.zcoshl, l.ctem)
                                   + Mul(Mul(917449, l.zsinhl), l.stem))
                       - l.xnodce, TWOPI)] @@ l}}

\* LunarBody, step 4 of 5: zsinhl, zcoshl
LunarBody3(d_day_, cosq, sinq, l) ==
    UNION {LunarBody4(d_day_, cosq, sinq, n) : n \in {
        [zsinhl |-> Div(Mul(89684, l.stem), l.zsinil),
         zcoshl |-> Sqrt(U - Pow2(Div(Mul(89684, l.stem), l.zsinil)))] @@ l}}

\* LunarBody, step 3 of 5: zcosil, zsinil
LunarBody2(d_day_, cosq, sinq, l) ==
    UNION {LunarBody3(d_day_, cosq, sinq, n) : n \in {
        [zcosil |-> 913752 - Mul(35681, l.ctem),
         zsinil |-> Sqrt(U - Pow2(913752 - Mul(35681, l.ctem)))] @@ l}}

\* LunarBody, step 2 of 5: stem, ctem
LunarBody1(d_day_, cosq, sinq, l) ==
    UNION {LunarBody2(d_day_, cosq, sinq, n) : n \in {
        [stem |-> Sin(Fmod(l.xnodce, TWOPI)),
         ctem |-> Cos(Fmod(l.xnodce, TWOPI))] @@ l}}

\* The moon at the epoch, src/SGP4.cpp:649-668 and 781-789.  A procedure
\* with many locals is written in steps: each step binds, in the record n,
\* the locals that depend on those of the record l of the steps before it.
LunarBody(d_day_, cosq, sinq) ==
    CHOOSE r \in
      UNION {LunarBody1(d_day_, cosq, sinq, n) : n \in {
        [xnodce |-> 4523602 - Quot(Mul(d_day_, 924220), 1000),
         gam |-> 5835151 + Quot(Mul(d_day_, 1944368), 1000)]}} : TRUE

\* d_zmol_ and d_zmos_ at the epoch, src/SGP4.cpp:659-661 and 669
MeanLongitudes(d_day_) ==
    [d_zmol_ |-> Fmod2p(4719967 + Mul(d_day_, 229972)
                        - (5835151 + Quot(Mul(d_day_, 1944368), 1000))),
     d_zmos_ |-> Fmod2p(6256584 + Quot(Mul(d_day_, 17201977), 1000))]

\* BodyTerms, step 5 of 5: z1, z2, z3
BodyTerms4(s, b, eosq, sinio, cosio, betao, betao2, l) ==
    {[se |-> Mul(Mul(n.s1, b.zn), n.s5),
      si |-> Mul(Mul(n.s2, b.zn), n.z11 + n.z13),
      sl |-> -Mul(Mul(b.zn, n.s3), n.z1 + n.z3 - 14 * U - 6 * eosq),
      sgh |-> Mul(Mul(n.s4, b.zn), n.z31 + n.z33 - 6 * U),
      shdq |-> IF s.inclination_ < 52360 \/ s.inclination_ > PI - 52360
               THEN 0
               ELSE Div(-Mul(Mul(b.zn, n.s2), n.z21 + n.z23), sinio),
      ee2 |-> 2 * Mul(n.s1, n.s6), e3 |-> 2 * Mul(n.s1, n.s7),
      xi2 |-> 2 * Mul(n.s2, n.z12), xi3 |-> 2 * Mul(n.s2, n.z13 - n.z11),
      xl2 |-> -2 * Mul(n.s3, n.z2), xl3 |-> -2 * Mul(n.s3, n.z3 - n.z1),
      xl4 |-> Mul(Mul(-2 * n.s3, -21 * U - 9 * eosq), b.ze),
      xgh2 |-> 2 * Mul(n.s4, n.z32), xgh3 |-> 2 * Mul(n.s4, n.z33 - n.z31),
      xgh4 |-> -18 * Mul(n.s4, b.ze),
      xh2 |-> -2 * Mul(n.s2, n.z22), xh3 |-> -2 * Mul(n.s2, n.z23 - n.z21)]
        : n \in {
        [z1 |-> 2 * (3 * (Mul(l.a1, l.a1) + Mul(l.a2, l.a2)) + Mul(l.z31, eosq))
                  + Mul(betao2, l.z31),
         z2 |-> 2 * (6 * (Mul(l.a1, l.a3) + Mul(l.a2, l.a4)) + Mul(l.z32, eosq))
                  + Mul(betao2, l.z32),
         z3 |-> 2 * (3 * (Mul(l.a3, l.a3) + Mul(l.a4, l.a4)) + Mul(l.z33, eosq))
                  + Mul(betao2, l.z33)] @@ l}}

\* BodyTerms, step 4 of 5: z31 to z23, s5 to s7
BodyTerms3(s, b, eosq, sinio, cosio, betao, betao2, l) ==
    UNION {BodyTerms4(s, b, eosq, sinio, cosio, betao, betao2, n) : n \in {
        [z31 |-> 12 * Mul(l.x1, l.x1) - 3 * Mul(l.x3, l.x3),
         z32 |-> 24 * Mul(l.x1, l.x2) - 6 * Mul(l.x3, l.x4),
         z33 |-> 12 * Mul(l.x2, l.x2) - 3 * Mul(l.x4, l.x4),
         z11 |-> -6 * Mul(l.a1, l.a5)
                   + Mul(eosq, -24 * Mul(l.x1, l.x7) - 6 * Mul(l.x3, l.x5)),
         z12 |-> -6 * (Mul(l.a1, l.a6) + Mul(l.a3, l.a5))
                   + Mul(eosq, -24 * (Mul(l.x2, l.x7) + Mul(l.x1, l.x8))
                               - 6 * (Mul(l.x3, l.x6) + Mul(l.x4, l.x5))),
         z13 |-> -6 * Mul(l.a3, l.a6)
                   + Mul(eosq, -24 * Mul(l.x2, l.x8) - 6 * Mul(l.x4, l.x6)),
         z21 |-> 6 * Mul(l.a2, l.a5) + Mul(eosq, 24 * Mul(l.x1, l.x5) - 6 * Mul(l.x3, l.x7)),
         z22 |-> 6 * (Mul(l.a4, l.a5) + Mul(l.a2, l.a6))
                   + Mul(eosq, 24 * (Mul(l.x2, l.x5) + Mul(l.x1, l.x6))
                               - 6 * (Mul(l.x4, l.x7) + Mul(l.x3, l.x8))),
         z23 |-> 6 * Mul(l.a4, l.a6) + Mul(eosq, 24 * Mul(l.x2, l.x6) - 6 * Mul(l.x4, l.x8)),
         s5 |-> Mul(l.x1, l.x3) + Mul(l.x2, l.x4),
         s6 |-> Mul(l.x2, l.x3) + Mul(l.x1, l.x4),
         s7 |-> Mul(l.x2, l.x4) - Mul(l.x1, l.x3)] @@ l}}

\* BodyTerms, step 3 of 5: x1 to x8, s1
BodyTerms2(s, b, eosq, sinio, cosio, betao, betao2, l) ==
    UNION {BodyTerms3(s, b, eosq, sinio, cosio, betao, betao2, n) : n \in {
        [x1 |-> Mul(l.a1, l.cosg) + Mul(l.a2, l.sing),
         x2 |-> Mul(l.a3, l.cosg) + Mul(l.a4, l.sing),
         x3 |-> -Mul(l.a1, l.sing) + Mul(l.a2, l.cosg),
         x4 |-> -Mul(l.a3, l.sing) + Mul(l.a4, l.cosg),
         x5 |-> Mul(l.a5, l.sing),
         x6 |-> Mul(l.a6, l.sing),
         x7 |-> Mul(l.a5, l.cosg),
         x8 |-> Mul(l.a6, l.cosg),
         s1 |-> -15 * Mul(s.eccentricity_, l.s4)] @@ l}}

\* BodyTerms, step 2 of 5: a2, a4, a5, a6, s2, s4
BodyTerms1(s, b, eosq, sinio, cosio, betao, betao2, l) ==
    UNION {BodyTerms2(s, b, eosq, sinio, cosio, betao, betao2, n) : n \in {
        [a2 |-> Mul(cosio, l.a7) + Mul(sinio, l.a8),
         a4 |-> Mul(cosio, l.a9) + Mul(sinio, l.a10),
         a5 |-> -Mul(sinio, l.a7) + Mul(cosio, l.a8),
         a6 |-> -Mul(sinio, l.a9) + Mul(cosio, l.a10),
         s2 |-> -Div(Quot(l.s3, 2), betao),
         s4 |-> Mul(l.s3, betao)] @@ l}}

\* One pass of the loop of DeepSpaceInitialize for one perturbing body b:
\* the secular rates se, si, sl, sgh, shdq in 1e-13 / min and the periodic
\* coefficients in 1e-9.
BodyTerms(s, b, eosq, sinio, cosio, betao, betao2) ==
    CHOOSE r \in
      UNION {BodyTerms1(s, b, eosq, sinio, cosio, betao, betao2, n) : n \in {
        [sing |-> Sin(s.argument_perigee_),
         cosg |-> Cos(s.argument_perigee_),
         a1 |-> Mul(b.zcosg, b.zcosh) + Mul3(b.zsing, b.zcosi, b.zsinh),
         a3 |-> -Mul(b.zsing, b.zcosh) + Mul3(b.zcosg, b.zcosi, b.zsinh),
         a7 |-> -Mul(b.zcosg, b.zsinh) + Mul3(b.zsing, b.zcosi, b.zcosh),
         a8 |-> Mul(b.zsing, b.zsini),
         a9 |-> Mul(b.zsing, b.zsinh) + Mul3(b.zcosg, b.zcosi, b.zcosh),
         a10 |-> Mul(b.zcosg, b.zsini),
         s3 |-> Div(b.cc, s.recovered_mean_motion_)]}} : TRUE

\* LunarSolarInitialize, step 2 of 2: sun, moon
LunarSolarInitialize1(s, eosq, sinio, cosio, betao, betao2, l) ==
    {Assign(Assign(s, MeanLongitudes(n.d_day_)),
       [d_sse_ |-> n.sun.se + n.moon.se, d_ssi_ |-> n.sun.si + n.moon.si,
        d_ssl_ |-> n.sun.sl + n.moon.sl,
        d_ssg_ |-> n.sun.sgh - Mul(cosio, n.sun.shdq)
                   + n.moon.sgh - Mul(cosio, n.moon.shdq),
        d_ssh_ |-> n.sun.shdq + n.moon.shdq,
        d_se2_ |-> n.sun.ee2, d_si2_ |-> n.sun.xi2, d_sl2_ |-> n.sun.xl2,
        d_sgh2_ |-> n.sun.xgh2, d_sh2_ |-> n.sun.xh2, d_se3_ |-> n.sun.e3,
        d_si3_ |-> n.sun.xi3, d_sl3_ |-> n.sun.xl3, d_sgh3_ |-> n.sun.xgh3,
        d_sh3_ |-> n.sun.xh3, d_sl4_ |-> n.sun.xl4, d_sgh4_ |-> n.sun.xgh4,
        d_ee2_ |-> n.moon.ee2, d_e3_ |-> n.moon.e3, d_xi2_ |-> n.moon.xi2,
        d_xi3_ |-> n.moon.xi3, d_xl2_ |-> n.moon.xl2, d_xl3_ |-> n.moon.xl3,
        d_xl4_ |-> n.moon.xl4, d_xgh2_ |-> n.moon.xgh2, d_xgh3_ |-> n.moon.xgh3,
        d_xgh4_ |-> n.moon.xgh4, d_xh2_ |-> n.moon.xh2, d_xh3_ |-> n.moon.xh3])
        : n \in {
        [sun |-> BodyTerms(s, SolarBody(l.cosq, l.sinq),
                             eosq, sinio, cosio, betao, betao2),
         moon |-> BodyTerms(s, LunarBody(l.d_day_, l.cosq, l.sinq),
                              eosq, sinio, cosio, betao, betao2)] @@ l}}

\* The lunar and solar members, src/SGP4.cpp:685-796
LunarSolarInitialize(s, eosq, sinio, cosio, betao, betao2) ==
    CHOOSE r \in
      UNION {LunarSolarInitialize1(s, eosq, sinio, cosio, betao, betao2, n) : n \in {
        [sinq |-> Sin(s.ascending_node_),
         cosq |-> Cos(s.ascending_node_),
         d_day_ |-> FromJan1_12h_1900(s.epoch_)]}} : TRUE

G22 == 5768640
G32 == 952409
G44 == 1801500
G52 == 1050833
G54 == 4410890
FASX2 == 131309
FASX4 == 2884320
FASX6 == 374481

\* DeepSpaceCalcDotTerms, step 2 of 2: xndot, xnddt
DeepSpaceCalcDotTerms1(s, l) ==
    {[xndot |-> n.xndot, xnddt |-> Quot(Mul(n.xnddt, n.xldot), 10),
      xldot |-> n.xldot]
        : n \in {
        [xndot |-> IF s.d_synchronous_flag_
                     THEN Mul(s.d_del1_, Sin(l.xli - FASX2))
                          + Mul(s.d_del2_, Sin(2 * (l.xli - FASX4)))
                          + Mul(s.d_del3_, Sin(3 * (l.xli - FASX6)))
                     ELSE Mul(s.d_d2201_, Sin(2 * l.xomi + l.xli - G22))
                          + Mul(s.d_d2211_, Sin(l.xli - G22))
                          + Mul(s.d_d3210_, Sin(l.xomi + l.xli - G32))
                          + Mul(s.d_d3222_, Sin(-l.xomi + l.xli - G32))
                          + Mul(s.d_d4410_, Sin(2 * l.xomi + 2 * l.xli - G44))
                          + Mul(s.d_d4422_, Sin(2 * l.xli - G44))
                          + Mul(s.d_d5220_, Sin(l.xomi + l.xli - G52))
                          + Mul(s.d_d5232_, Sin(-l.xomi + l.xli - G52))
                          + Mul(s.d_d5421_, Sin(l.xomi + 2 * l.xli - G54))
                          + Mul(s.d_d5433_, Sin(-l.xomi + 2 * l.xli - G54)),
         xnddt |-> IF s.d_synchronous_flag_
                     THEN Mul(s.d_del1_, Cos(l.xli - FASX2))
                          + 2 * Mul(s.d_del2_, Cos(2 * (l.xli - FASX4)))
                          + 3 * Mul(s.d_del3_, Cos(3 * (l.xli - FASX6)))
                     ELSE Mul(s.d_d2201_, Cos(2 * l.xomi + l.xli - G22))
                          + Mul(s.d_d2211_, Cos(l.xli - G22))
                          + Mul(s.d_d3210_, Cos(l.xomi + l.xli - G32))
                          + Mul(s.d_d3222_, Cos(-l.xomi + l.xli - G32))
                          + Mul(s.d_d5220_, Cos(l.xomi + l.xli - G52))
                          + Mul(s.d_d5232_, Cos(-l.xomi + l.xli - G52))
                          + 2 * (Mul(s.d_d4410_, Cos(2 * l.xomi + 2 * l.xli - G44))
                                 + Mul(s.d_d4422_, Cos(2 * l.xli - G44))
                                 + Mul(s.d_d5421_, Cos(l.xomi + 2 * l.xli - G54))
                                 + Mul(s.d_d5433_, Cos(-l.xomi + 2 * l.xli - G54)))] @@ l}}

\* SGP4::DeepSpaceCalcDotTerms: the values written to (xndot, xnddt, xldot).
\* xndot in 1e-18 / min^2, xnddt in 1e-21 / min^3, xldot in R10.
DeepSpaceCalcDotTerms(s) ==
    CHOOSE r \in
      UNION {DeepSpaceCalcDotTerms1(s, n) : n \in {
        [xli |-> s.d_xli_,
         xomi |-> s.argument_perigee_ + RateT(s.i_omgdot_, s.d_atime_),
         xldot |-> s.d_xni_ + s.d_xfact_]}} : TRUE

\* a polynomial c0 + c1 e + c2 e^2 + c3 e^3 of the 12 hour resonance, its
\* coefficients in 1e-3
GPoly(c0, c1, c2, c3, e, eosq, eoc) ==
    1000 * (c0 + Mul(c1, e) + Mul(c2, eosq) + Mul(c3, eoc))

\* SynchronousTerms, step 2 of 2: del1
SynchronousTerms1(s, eosq, sinio, cosio, xmdot, xpidot, l) ==
    {[d_resonance_flag_ |-> TRUE, d_synchronous_flag_ |-> TRUE,
      d_del2_ |-> Mul(Mul(Mul(2 * n.del1, n.f220), n.g200), Q22),
      d_del3_ |-> Mul(Mul(Mul(Mul(3 * n.del1, n.f330), n.g300), Q33), n.aqnv),
      d_del1_ |-> Mul(Mul(Mul(Mul(n.del1, n.f311), n.g310), Q31), n.aqnv),
      d_xlamo_ |-> s.mean_anomoly_ + s.ascending_node_
                   + s.argument_perigee_ - s.d_gsto_,
      d_xfact_ |-> xmdot + xpidot - THDT
                   + Quot(s.d_ssl_ + s.d_ssg_ + s.d_ssh_, 1000)
                   - s.recovered_mean_motion_]
        : n \in {
        [del1 |-> Mul(Mul(3 * Mul(l.n10, l.n10), l.aqnv), l.aqnv)] @@ l}}

\* The 24 hour resonance members, src/SGP4.cpp:808-825, with d_xfact_ =
\* bfact - n'' of src/SGP4.cpp:929
SynchronousTerms(s, eosq, sinio, cosio, xmdot, xpidot) ==
    CHOOSE r \in
      UNION {SynchronousTerms1(s, eosq, sinio, cosio, xmdot, xpidot, n) : n \in {
        [aqnv |-> Div(U, s.recovered_semi_major_axis_),
         n10 |-> Quot(s.recovered_mean_motion_, 10),
         g200 |-> U + Mul(eosq, -2500000 + Mul(812500, eosq)),
         g310 |-> U + 2 * eosq,
         g300 |-> U + Mul(eosq, -6 * U + Mul(6609370, eosq)),
         f220 |-> Mul(Mul(750000, U + cosio), U + cosio),
         f311 |-> Mul(Mul(Mul(937500, sinio), sinio), U + 3 * cosio)
                    - Mul(750000, U + cosio),
         f330 |-> Mul(1875000, Pow3(U + cosio))]}} : TRUE

\* HalfDayTerms, step 3 of 3: tempa to tempe
HalfDayTerms2(s, eosq, sinio, cosio, theta2, xmdot, xnodot, l) ==
    {[d_resonance_flag_ |-> TRUE,
       d_d2201_ |-> Mul3(n.tempa, n.f220, n.g201),
       d_d2211_ |-> Mul3(n.tempa, n.f221, n.g211),
       d_d3210_ |-> Mul3(n.tempb, n.f321, n.g310),
       d_d3222_ |-> Mul3(n.tempb, n.f322, n.g322),
       d_d4410_ |-> Mul3(n.tempc, n.f441, n.g410),
       d_d4422_ |-> Mul3(n.tempc, n.f442, n.g422),
       d_d5220_ |-> Mul3(n.tempd, n.f522, n.g520),
       d_d5232_ |-> Mul3(n.tempd, n.f523, n.g532),
       d_d5421_ |-> Mul3(n.tempe, n.f542, n.g521),
       d_d5433_ |-> Mul3(n.tempe, n.f543, n.g533),
       d_xlamo_ |-> s.mean_anomoly_ + s.ascending_node_
                    + s.ascending_node_ - s.d_gsto_ - s.d_gsto_,
       d_xfact_ |-> xmdot + xnodot + xnodot - THDT - THDT
                    + Quot(s.d_ssl_ + s.d_ssh_ + s.d_ssh_, 1000)
                    - s.recovered_mean_motion_]
        : n \in {
        [tempa |-> Mul(l.temp1a, ROOT22),
         tempb |-> Mul(Mul(l.temp1a, l.aqnv), ROOT32),
         tempc |-> Mul(2 * Mul(Mul(l.temp1a, l.aqnv), l.aqnv), ROOT44),
         tempd |-> Mul(Mul(Mul(Mul(l.temp1a, l.aqnv), l.aqnv), l.aqnv), ROOT52),
         tempe |-> Mul(2 * Mul(Mul(Mul(l.temp1a, l.aqnv), l.aqnv), l.aqnv), ROOT54)] @@ l}}

\* HalfDayTerms, step 2 of 3: the polynomials g and f
HalfDayTerms1(s, eosq, sinio, cosio, theta2, xmdot, xnodot, l) ==
    UNION {HalfDayTerms2(s, eosq, sinio, cosio, theta2, xmdot, xnodot, n) : n \in {
        [g201 |-> -306000 - Mul(l.e - 640000, 440000),
         g211 |-> IF l.e <= 650000 THEN GPoly(3616, -13247, 16290, 0, l.e, eosq, l.eoc)
                    ELSE GPoly(-72099, 331819, -508738, 266724, l.e, eosq, l.eoc),
         g310 |-> IF l.e <= 650000 THEN GPoly(-19302, 117390, -228419, 156591, l.e, eosq, l.eoc)
                    ELSE GPoly(-346844, 1582851, -2415925, 1246113, l.e, eosq, l.eoc),
         g322 |-> IF l.e <= 650000 THEN GPoly(-18907, 109793, -214633, 146582, l.e, eosq, l.eoc)
                    ELSE GPoly(-342585, 1554908, -2366899, 1215972, l.e, eosq, l.eoc),
         g410 |-> IF l.e <= 650000 THEN GPoly(-41122, 242694, -471094, 313953, l.e, eosq, l.eoc)
                    ELSE GPoly(-1052797, 4758686, -7193992, 3651957, l.e, eosq, l.eoc),
         g422 |-> IF l.e <= 650000 THEN GPoly(-146407, 841880, -1629014, 1083435, l.e, eosq, l.eoc)
                    ELSE GPoly(-3581690, 16178110, -24462770, 12422520, l.e, eosq, l.eoc),
         g520 |-> IF l.e <= 650000 THEN GPoly(-532114, 3017977, -5740032, 3708276, l.e, eosq, l.eoc)
                    ELSE IF l.e <= 715000 THEN GPoly(1464740, -4664750, 3763640, 0, l.e, eosq, l.eoc)
                    ELSE GPoly(-5149660, 29936920, -54087360, 31324560, l.e, eosq, l.eoc),
         g533 |-> IF l.e < 700000 THEN GPoly(-919228, 4988610, -9064770, 5542210, l.e, eosq, l.eoc)
                    ELSE GPoly(-37995780, 161616520, -229838200, 109377940, l.e, eosq, l.eoc),
         g521 |-> IF l.e < 700000 THEN GPoly(-822711, 4568617, -8491415, 5337524, l.e, eosq, l.eoc)
                    ELSE GPoly(-51752104, 218913950, -309468160, 146349420, l.e, eosq, l.eoc),
         g532 |-> IF l.e < 700000 THEN GPoly(-853666, 4690250, -8624770, 5341400, l.e, eosq, l.eoc)
                    ELSE GPoly(-40023880, 170470890, -242699480, 115605820, l.e, eosq, l.eoc),
         f221 |-> Mul(1500000, l.sini2),
         f321 |-> Mul(Mul(1875000, sinio), U - 2 * cosio - 3 * theta2),
         f322 |-> -Mul(Mul(1875000, sinio), U + 2 * cosio - 3 * theta2),
         f441 |-> Mul(35 * l.sini2, l.f220),
         f442 |-> Mul(Mul(39375000, l.sini2), l.sini2),
         f522 |-> Mul(Mul(9843750, sinio),
                        Mul(l.sini2, U - 2 * cosio - 5 * theta2)
                        + Mul(333333, -2 * U + 4 * cosio + 6 * theta2)),
         f523 |-> Mul(sinio,
                        Mul(Mul(4921875, l.sini2), -2 * U - 4 * cosio + 10 * theta2)
                        + Mul(6562500, U + 2 * cosio - 3 * theta2)),
         f542 |-> Mul(Mul(29531250, sinio),
                        2 * U - 8 * cosio
                        + Mul(theta2, -12 * U + 8 * cosio + 10 * theta2)),
         f543 |-> Mul(Mul(29531250, sinio),
                        -2 * U - 8 * cosio
                        + Mul(theta2, 12 * U + 8 * cosio - 10 * theta2)),
         temp1a |-> Mul(3 * Mul(l.n10, l.n10), Mul(l.aqnv, l.aqnv))] @@ l}}

\* The 12 hour resonance members, src/SGP4.cpp:833-922, with d_xfact_ =
\* bfact - n'' of src/SGP4.cpp:929
HalfDayTerms(s, eosq, sinio, cosio, theta2, xmdot, xnodot) ==
    CHOOSE r \in
      UNION {HalfDayTerms1(s, eosq, sinio, cosio, theta2, xmdot, xnodot, n) : n \in {
        [e |-> s.eccentricity_,
         eoc |-> Mul(s.eccentricity_, eosq),
         aqnv |-> Div(U, s.recovered_semi_major_axis_),
         n10 |-> Quot(s.recovered_mean_motion_, 10),
         sini2 |-> Mul(sinio, sinio),
         f220 |-> Mul(750000, U + 2 * cosio + theta2)]}} : TRUE

\* The test for the 24 hour resonance, src/SGP4.cpp:803
Synchronous(n) == n < 52359877 /\ n > 34906585

\* A 12 hour test that also rules out e0 = 0.5 itself
NoHalfDayResonanceInclusive(n, e) ==
    n < 82600000 \/ n > 92400000 \/ e <= 500000

\* The test that rules out the 12 hour resonance, src/SGP4.cpp:827
NoHalfDayResonance(n, e) == n < 82600000 \/ n > 92400000 \/ e < 500000

\* An integrator initialisation that leaves d_xli_ as the reset left it
InitializeIntegratorWithoutXli(s) ==
    Assign(s, [d_atime_ |-> 0, d_xni_ |-> s.recovered_mean_motion_])

\* The integrator members at the epoch, src/SGP4.cpp:930-932
InitializeIntegrator(s) ==
    Assign(s, [d_atime_ |-> 0, d_xni_ |-> s.recovered_mean_motion_,
               d_xli_ |-> s.d_xlamo_])

\* DeepSpaceInitialize, step 3 of 3: the dot terms at the epoch
DeepSpaceInitialize2(s, eosq, sinio, cosio, betao, theta2, betao2, xmdot, omgdot, xnodot, l) ==
    {Assign(n.int, [d_xndot_0_ |-> n.dot.xndot, d_xnddt_0_ |-> n.dot.xnddt,
                   d_xldot_0_ |-> n.dot.xldot])
        : n \in {
        [dot |-> DeepSpaceCalcDotTerms(l.int)] @@ l}}

\* DeepSpaceInitialize, step 2 of 3: the resonance members and the integrator at the epoch
DeepSpaceInitialize1(s, eosq, sinio, cosio, betao, theta2, betao2, xmdot, omgdot, xnodot, l) ==
    IF ~(Synchronous(l.n) \/ ~NoHalfDayResonance(l.n, s.eccentricity_))
    THEN {l.ls}
    ELSE
    UNION {DeepSpaceInitialize2(s, eosq, sinio, cosio, betao, theta2, betao2, xmdot, omgdot, xnodot, n) : n \in {
        [int |-> InitializeIntegrator(
                       Assign(l.ls, IF Synchronous(l.n)
                                  THEN SynchronousTerms(l.ls, eosq, sinio, cosio, xmdot,
                                                        omgdot + xnodot)
                                  ELSE HalfDayTerms(l.ls, eosq, sinio, cosio, theta2,
                                                    xmdot, xnodot)))] @@ l}}

\* SGP4::DeepSpaceInitialize.  The resonance coefficients d_del*_ and
\* d_d*_ are in 1e-18 / min^2, d_ss*_ in 1e-13 / min, d_xfact_ in R10.
DeepSpaceInitialize(s, eosq, sinio, cosio, betao, theta2, betao2, xmdot, omgdot, xnodot) ==
    CHOOSE r \in
      UNION {DeepSpaceInitialize1(s, eosq, sinio, cosio, betao, theta2, betao2, xmdot, omgdot, xnodot, n) : n \in {
        [ls |-> Assign(LunarSolarInitialize(s, eosq, sinio, cosio, betao, betao2),
                         [d_resonance_flag_ |-> FALSE, d_synchronous_flag_ |-> FALSE]),
         n |-> s.recovered_mean_motion_]}} : TRUE

\* Mode flags with a period of exactly 225 minutes on the near-space side
ModeFlagsStrict(period, perigee) ==
    IF period > 22500 THEN [i_use_deep_space_ |-> TRUE]
    ELSE [i_use_deep_space_ |-> FALSE,
          i_use_simple_model_ |-> perigee < 220000]

\* The mode flags Initialize writes, src/SGP4.cpp:118-132: period in 1e-2
\* minutes, perigee in metres
ModeFlags(period, perigee) ==
    IF period >= 22500 THEN [i_use_deep_space_ |-> TRUE]
    ELSE [i_use_deep_space_ |-> FALSE,
          i_use_simple_model_ |-> perigee < 220000]

\* Initialize, step 13 of 13: d3, d4
Initialize12(s, theta2, betao2, betao, eosq, l) ==
    {Assign(n.near,
       [n_d2_ |-> n.d2, n_d3_ |-> n.d3, n_d4_ |-> n.d4,
        n_t3cof_ |-> n.d2 + 2 * n.c1sq,
        n_t4cof_ |-> Quot(3 * n.d3 + Mul(n.c1, 12 * n.d2 + 10 * n.c1sq), 4),
        n_t5cof_ |-> Quot(3 * n.d4 + 12 * Mul(n.c1, n.d3)
                            + 6 * Mul(n.d2, n.d2)
                            + 15 * Mul(n.c1sq, 2 * n.d2 + n.c1sq), 5)])
        : n \in {
        [d3 |-> Mul(17 * l.a + l.s4, l.temp),
         d4 |-> Mul(Mul(Mul(Mul(Quot(l.temp, 2), l.a), l.tsi), 221 * l.a + 31 * l.s4), l.c1)] @@ l}}

\* Initialize, step 12 of 13: temp
Initialize11(s, theta2, betao2, betao, eosq, l) ==
    UNION {Initialize12(s, theta2, betao2, betao, eosq, n) : n \in {
        [temp |-> Quot(Mul(Mul(l.d2, l.tsi), l.c1), 3)] @@ l}}

\* Initialize, step 11 of 13: c1sq, d2
Initialize10(s, theta2, betao2, betao, eosq, l) ==
    IF l.near.i_use_simple_model_
    THEN {l.near}
    ELSE
    UNION {Initialize11(s, theta2, betao2, betao, eosq, n) : n \in {
        [c1sq |-> Mul(l.c1, l.c1),
         d2 |-> Mul(Mul(4 * l.a, l.tsi), Mul(l.c1, l.c1))] @@ l}}

\* Initialize, step 10 of 13: the near-space members
Initialize9(s, theta2, betao2, betao, eosq, l) ==
    UNION {Initialize10(s, theta2, betao2, betao, eosq, n) : n \in {
        [near |-> Assign(l.g,
                      [n_c5_ |-> Mul(Mul(Mul(2 * l.coef1, l.a), betao2),
                                     U + Mul(2750000, l.etasq + l.eeta)
                                       + Mul(l.eeta, l.etasq)),
                       n_omgcof_ |-> Mul(Mul(s.bstar_, l.c3),
                                         Cos(s.argument_perigee_)),
                       n_xmcof_ |-> IF l.e > 100
                                    THEN Div(Mul(Mul(Mul(-TWOTHIRD, l.coef),
                                                     s.bstar_), AE), l.eeta)
                                    ELSE 0,
                       n_delmo_ |-> Pow3(U + Mul(l.eta, Cos(s.mean_anomoly_))),
                       n_sinmo_ |-> Sin(s.mean_anomoly_),
                       first_run_ |-> FALSE])] @@ l}}

\* Initialize, step 9 of 13: the near-space branch, src/SGP4.cpp:207-240
Initialize8(s, theta2, betao2, betao, eosq, l) ==
    IF l.g.i_use_deep_space_
    THEN {Assign(DeepSpaceInitialize(
                         Assign(l.g, [d_gsto_ |-> ToGreenwichSiderealTime(s.epoch_)]),
                         eosq, s.i_sinio_, s.i_cosio_, betao, theta2, betao2,
                         l.xmdot, l.omgdot, l.xnodot),
                     [first_run_ |-> FALSE])}
    ELSE
    UNION {Initialize9(s, theta2, betao2, betao, eosq, n) : n \in {
        [c3 |-> IF l.e > 100
                  THEN Div(Mul(Mul(Mul(Mul(Mul(l.coef, l.tsi), l.a3ovk2), l.np), AE),
                               s.i_sinio_), l.e)
                  ELSE 0] @@ l}}

\* Initialize, step 8 of 13: the members of both models
Initialize7(s, theta2, betao2, betao, eosq, l) ==
    UNION {Initialize8(s, theta2, betao2, betao, eosq, n) : n \in {
        [g |-> Assign(Assign(s, ModeFlags(s.period_, s.perigee_)),
                        [i_eta_ |-> l.eta, i_c1_ |-> l.c1, i_a3ovk2_ |-> l.a3ovk2,
                         i_x1mth2_ |-> l.x1mth2, i_c4_ |-> l.c4,
                         i_xmdot_ |-> l.xmdot, i_omgdot_ |-> l.omgdot,
                         i_xnodot_ |-> l.xnodot,
                         i_xnodcf_ |-> Mul(Mul(MulDiv(betao2, 7, 2), l.xhdot1), l.c1),
                         i_t2cof_ |-> MulDiv(l.c1, 3, 2), i_xlcof_ |-> l.xlcof,
                         i_aycof_ |-> Mul(Quot(l.a3ovk2, 4), s.i_sinio_),
                         i_x7thm1_ |-> 7 * theta2 - U])] @@ l}}

\* Initialize, step 7 of 13: c1, c4
Initialize6(s, theta2, betao2, betao, eosq, l) ==
    UNION {Initialize7(s, theta2, betao2, betao, eosq, n) : n \in {
        [c1 |-> Mul(s.bstar_,
                      Mul(Mul(l.coef1, l.np),
                          Mul(l.a, U + MulDiv(l.etasq, 3, 2) + Mul(l.eeta, 4 * U + l.etasq))
                          + Mul(Mul(Div(Mul(MulDiv(CK2, 3, 4), l.tsi), l.psisq),
                                    s.i_x3thm1_),
                                8 * U + Mul(3 * l.etasq, 8 * U + l.etasq)))),
         c4 |-> Mul(Mul(Mul(Mul(2 * l.np, l.coef1), l.a), betao2),
                      Mul(l.eta, 2 * U + Quot(l.etasq, 2))
                      + Mul(l.e, Quot(U, 2) + 2 * l.etasq)
                      - Mul(Div(Mul(2 * CK2, l.tsi), Mul(l.a, l.psisq)),
                            Mul(-3 * s.i_x3thm1_,
                                U - 2 * l.eeta
                                  + Mul(l.etasq, MulDiv(U, 3, 2) - Quot(l.eeta, 2)))
                            + Mul(Mul(MulDiv(l.x1mth2, 3, 4),
                                      2 * l.etasq - Mul(l.eeta, U + l.etasq)),
                                  Cos(2 * s.argument_perigee_))))] @@ l}}

\* Initialize, step 6 of 13: coef1
Initialize5(s, theta2, betao2, betao, eosq, l) ==
    UNION {Initialize6(s, theta2, betao2, betao, eosq, n) : n \in {
        [coef1 |-> Div(l.coef, Pow35(l.psisq))] @@ l}}

\* Initialize, step 5 of 13: etasq, eeta, psisq and the secular rates
Initialize4(s, theta2, betao2, betao, eosq, l) ==
    UNION {Initialize5(s, theta2, betao2, betao, eosq, n) : n \in {
        [etasq |-> Mul(l.eta, l.eta),
         eeta |-> Mul(l.e, l.eta),
         psisq |-> Abs(U - Mul(l.eta, l.eta)),
         xmdot |-> l.np + Mul(Mul(Quot(l.temp1, 2), betao), s.i_x3thm1_)
                     + Mul(Mul(Quot(l.temp2, 16), betao),
                           13 * U - 78 * theta2 + 137 * l.theta4),
         omgdot |-> Mul(Quot(-l.temp1, 2), l.x1m5th)
                      + Mul(Quot(l.temp2, 16), 7 * U - 114 * theta2 + 395 * l.theta4)
                      + Mul(l.temp3, 3 * U - 36 * theta2 + 49 * l.theta4),
         xnodot |-> l.xhdot1
                      + Mul(Mul(Quot(l.temp2, 2), 4 * U - 19 * theta2)
                            + Mul(2 * l.temp3, 3 * U - 7 * theta2), s.i_cosio_)] @@ l}}

\* Initialize, step 4 of 13: eta, coef, temp2
Initialize3(s, theta2, betao2, betao, eosq, l) ==
    UNION {Initialize4(s, theta2, betao2, betao, eosq, n) : n \in {
        [eta |-> Mul(Mul(l.a, l.e), l.tsi),
         coef |-> Pow4(Mul(l.qoms24_root, l.tsi)),
         temp2 |-> Mul(Mul(l.temp1, CK2), l.pinvsq),
         xhdot1 |-> -Mul(l.temp1, s.i_cosio_)] @@ l}}

\* Initialize, step 3 of 13: tsi, temp1, temp3
Initialize2(s, theta2, betao2, betao, eosq, l) ==
    UNION {Initialize3(s, theta2, betao2, betao, eosq, n) : n \in {
        [tsi |-> Div(U, l.a - l.s4),
         temp1 |-> Mul(Mul(3 * CK2, l.pinvsq), l.np),
         temp3 |-> Quot(Mul(Mul(Mul(MulDiv(CK4, 5, 4), l.pinvsq), l.pinvsq), l.np),
                          1000),
         xlcof |-> IF Abs(s.i_cosio_ + U) > 0 THEN Div(l.xlnum, U + s.i_cosio_)
                     ELSE l.xlnum * 666666666] @@ l}}

\* Initialize, step 2 of 13: s4, qoms24, pinvsq
Initialize1(s, theta2, betao2, betao, eosq, l) ==
    UNION {Initialize2(s, theta2, betao2, betao, eosq, n) : n \in {
        [s4 |-> IF l.low THEN Div(l.s4km, XKMPER) + AE ELSE S,
         qoms24_root |-> IF l.low THEN Div(Mul(120000 - l.s4km, AE), XKMPER)
                           ELSE QOMS2T_ROOT,
         pinvsq |-> Div(U, Mul(Mul(Mul(l.a, l.a), betao2), betao2)),
         xlnum |-> Mul(Mul(Quot(l.a3ovk2, 8), s.i_sinio_), 3 * U + 5 * s.i_cosio_)] @@ l}}

\* SGP4::Initialize.  Units of the members written: i_c1_, i_c4_, i_t2cof_,
\* i_xmdot_, i_omgdot_, i_xnodot_, n_omgcof_ in R10; i_xnodcf_, n_d2_,
\* n_t3cof_ in 1e-14 / min^2; n_d3_, n_t4cof_ in 1e-18 / min^3; n_d4_,
\* n_t5cof_ in 1e-22 / min^4; the others in micro-units.  The guard 1.5e-12
\* of i_xlcof_ is below the unit: |cosio + 1| > 1.5e-12 is cosio + 1 # 0
\* here, and x / 1.5e-12 is representable for x = 0 only.
Initialize(s, theta2, betao2, betao, eosq) ==
    CHOOSE r \in
      UNION {Initialize1(s, theta2, betao2, betao, eosq, n) : n \in {
        [a |-> s.recovered_semi_major_axis_,
         np |-> s.recovered_mean_motion_,
         e |-> s.eccentricity_,
         low |-> s.perigee_ < 156000,
         s4km |-> IF s.perigee_ < 98000 THEN 20000 ELSE s.perigee_ - 78000,
         a3ovk2 |-> Mul(Div(-XJ3, CK2N), Pow3(AE)),
         x1mth2 |-> U - theta2,
         theta4 |-> Mul(theta2, theta2),
         x1m5th |-> U - 5 * theta2]}} : TRUE

\* An eccentricity test that also rejects 1 - 1e-3 itself
EccentricityOutOfRangeInclusive(e) == e < 0 \/ e >= U - 1000

\* The eccentricity test of SetTle, src/SGP4.cpp:74
EccentricityOutOfRange(e) == e < 0 \/ e > U - 1000

\* The inclination test of SetTle, src/SGP4.cpp:78, which compares the
\* eccentricity with pi
InclinationOutOfRange(incl, e) == incl < 0 \/ e > PI

\* SetTle, step 8 of 8: the members recovered from the elements
SetTle7(s, tle, l) ==
    {[sat |-> Initialize(n.v, n.theta2, n.betao2, n.betao, n.eosq),
      exc |-> NoException]
        : n \in {
        [v |-> Assign(l.r, [i_cosio_ |-> l.cosio, i_sinio_ |-> l.sinio,
                            i_x3thm1_ |-> l.x3thm1,
                            recovered_mean_motion_ |-> l.xnodp,
                            recovered_semi_major_axis_ |-> l.aodp,
                            perigee_ |-> Mul(Mul(l.aodp, U - l.e) - AE, XKMPER),
                            period_ |-> Div(TWOPI, l.xnodp)])] @@ l}}

\* SetTle, step 7 of 8: xnodp, aodp
SetTle6(s, tle, l) ==
    UNION {SetTle7(s, tle, n) : n \in {
        [xnodp |-> Div(l.r.mean_motion_, U + l.del0),
         aodp |-> Div(l.a0, U - l.del0)] @@ l}}

\* SetTle, step 6 of 8: del0
SetTle5(s, tle, l) ==
    UNION {SetTle6(s, tle, n) : n \in {
        [del0 |-> Div(l.temp, Mul(l.a0, l.a0))] @@ l}}

\* SetTle, step 5 of 8: a0
SetTle4(s, tle, l) ==
    UNION {SetTle5(s, tle, n) : n \in {
        [a0 |-> Mul(l.a1, U - Mul(l.del1, Div(1, 3)
                                    + Mul(l.del1, U + MulDiv(l.del1, 134, 81))))] @@ l}}

\* SetTle, step 4 of 8: del1
SetTle3(s, tle, l) ==
    UNION {SetTle4(s, tle, n) : n \in {
        [del1 |-> Div(l.temp, Mul(l.a1, l.a1))] @@ l}}

\* SetTle, step 3 of 8: theta2, x3thm1, temp
SetTle2(s, tle, l) ==
    UNION {SetTle3(s, tle, n) : n \in {
        [theta2 |-> Mul(l.cosio, l.cosio),
         x3thm1 |-> 3 * Mul(l.cosio, l.cosio) - U,
         temp |-> Div(Mul(MulDiv(CK2, 3, 2), 3 * Mul(l.cosio, l.cosio) - U),
                        Mul(l.betao, l.betao2))] @@ l}}

\* SetTle, step 2 of 8: a1, cosio, sinio, eosq, betao2, betao
SetTle1(s, tle, l) ==
    IF EccentricityOutOfRange(l.e)
    THEN {[sat |-> l.r, exc |-> "Eccentricity out of range"]}
    ELSE
    IF InclinationOutOfRange(l.r.inclination_, l.e)
    THEN {[sat |-> l.r, exc |-> "Inclination out of range"]}
    ELSE
    UNION {SetTle2(s, tle, n) : n \in {
        [a1 |-> PowTwoThird(Div(XKE, l.r.mean_motion_)),
         cosio |-> Cos(l.r.inclination_),
         sinio |-> Sin(l.r.inclination_),
         eosq |-> Mul(l.e, l.e),
         betao2 |-> U - Mul(l.e, l.e),
         betao |-> Sqrt(U - Mul(l.e, l.e))] @@ l}}

\* SGP4::SetTle: the object after the call and the exception it threw
SetTle(s, tle) ==
    CHOOSE r \in
      UNION {SetTle1(s, tle, n) : n \in {
        [r |-> Assign(ResetGlobalVariables(s),
                   [mean_anomoly_ |-> tle.MeanAnomaly,
                    ascending_node_ |-> tle.RightAscendingNode,
                    argument_perigee_ |-> tle.ArgumentPerigee,
                    eccentricity_ |-> tle.Eccentricity,
                    inclination_ |-> tle.Inclination,
                    mean_motion_ |-> MulDiv(Mul(tle.MeanMotion, TWOPI), 125, 18),
                    bstar_ |-> tle.BStar,
                    epoch_ |-> tle.Epoch]),
         e |-> tle.Eccentricity]}} : TRUE

--------------------------------------------------------------------------
(* Propagation, src/SGP4.cpp:245-603 and 940-1241 *)

STEP == 720
STEP2 == 259200

\* a d_ss*_ rate (1e-13 / min) over t whole minutes, in micro-units
SecT(rate, t) == Quot(RateT(rate, t), 1000)

\* SGP4::DeepSpaceIntegrator: one step of delt = +-STEP minutes
DeepSpaceIntegrator(s, delt, step2, xndot, xnddt, xldot) ==
    Assign(s, [d_xli_ |-> s.d_xli_ + RateT(xldot, delt)
                          + Quot(Mul(xndot, step2), U),
               d_xni_ |-> s.d_xni_ + Quot(Mul(xndot, 1000 * delt), 100000)
                          + Quot(Mul(xnddt, step2 \div 100), 1000),
               d_atime_ |-> s.d_atime_ + delt])

\* A loop condition that stops one step short when t is on a step
StepNeededStrict(ft) == Abs(ft) > STEP

\* The loop condition of DeepSpaceSecular, src/SGP4.cpp:1132 and 1154
StepNeeded(ft) == Abs(ft) >= STEP

\* The do-while loop of DeepSpaceSecular, src/SGP4.cpp:1142-1154, with k
\* passes made: the object it leaves and the number of passes
RECURSIVE IntegrateLoop(_, _, _, _)

\* IntegrateLoop, step 3 of 3: the object after the pass
IntegrateLoop2(s, t, delt, k, l) ==
    {IF StepNeeded(t - n.next.d_atime_)
      THEN IntegrateLoop(n.next, t, delt, k + 1)
      ELSE [sat |-> n.next, steps |-> k + 1]
        : n \in {
        [next |-> Assign(l.i, [d_xndot_t_ |-> l.dot.xndot, d_xnddt_t_ |-> l.dot.xnddt,
                               d_xldot_t_ |-> l.dot.xldot])] @@ l}}

\* IntegrateLoop, step 2 of 3: the dot terms for the next pass
IntegrateLoop1(s, t, delt, k, l) ==
    UNION {IntegrateLoop2(s, t, delt, k, n) : n \in {
        [dot |-> DeepSpaceCalcDotTerms(l.i)] @@ l}}

IntegrateLoop(s, t, delt, k) ==
    CHOOSE r \in
      UNION {IntegrateLoop1(s, t, delt, k, n) : n \in {
        [i |-> DeepSpaceIntegrator(s, delt, STEP2, s.d_xndot_t_, s.d_xnddt_t_,
                                     s.d_xldot_t_)]}} : TRUE

\* A restart test without the third condition: the integrator would step
\* back towards the epoch from d_atime_
RestartNeededWithoutThird(s, t) == Abs(t) < STEP \/ t * s.d_atime_ <= 0

\* A restart test whose second condition is strict: no restart from
\* d_atime_ = 0
RestartNeededStrictSign(s, t) ==
    Abs(t) < STEP \/ t * s.d_atime_ < 0 \/ Abs(t) < Abs(s.d_atime_)

\* The restart test of DeepSpaceSecular, src/SGP4.cpp:1108-1110
RestartNeeded(s, t) ==
    Abs(t) < STEP \/ t * s.d_atime_ <= 0 \/ Abs(t) < Abs(s.d_atime_)

\* A restart that leaves the dot terms as they are
RestartFromEpochKeepingDotTerms(s) ==
    Assign(s, [d_atime_ |-> 0, d_xni_ |-> s.recovered_mean_motion_,
               d_xli_ |-> s.d_xlamo_])

\* A restart that copies the dot terms the wrong way round
RestartFromEpochSwapped(s) ==
    Assign(s, [d_atime_ |-> 0, d_xni_ |-> s.recovered_mean_motion_,
               d_xli_ |-> s.d_xlamo_, d_xndot_0_ |-> s.d_xndot_t_,
               d_xnddt_0_ |-> s.d_xnddt_t_, d_xldot_0_ |-> s.d_xldot_t_])

\* The restart from epoch, src/SGP4.cpp:1114-1123
RestartFromEpoch(s) ==
    Assign(s, [d_atime_ |-> 0, d_xni_ |-> s.recovered_mean_motion_,
               d_xli_ |-> s.d_xlamo_, d_xndot_t_ |-> s.d_xndot_0_,
               d_xnddt_t_ |-> s.d_xnddt_0_, d_xldot_t_ |-> s.d_xldot_0_])
\* A DeepSpaceSecular that goes on to its integrator whatever the flag
SecularEndsNever(s) == FALSE

\* DeepSpaceSecular returns after the secular terms, src/SGP4.cpp:1100-1101
SecularEnds(s) == ~s.d_resonance_flag_

\* DeepSpaceSecular, step 4 of 4: ft, xl, temp
DeepSpaceSecular3(s, t, xll, omgasm, xnodes, em, xinc, xn, l) ==
    {[sat |-> n.i.sat,
      v |-> [n.sec EXCEPT
               !.xn = n.i.sat.d_xni_
                      + Quot(Mul(n.i.sat.d_xndot_t_, 1000 * n.ft), 100000)
                      + Quot(Mul(n.i.sat.d_xnddt_t_, n.ft * n.ft), 200000),
               !.xll = IF s.d_synchronous_flag_
                       THEN n.xl + n.temp - n.sec.omgasm
                       ELSE n.xl + n.temp + n.temp],
      resonant |-> TRUE, restart |-> n.restart, atime0 |-> n.r.d_atime_,
      steps |-> n.i.steps]
        : n \in {
        [ft |-> t - l.i.sat.d_atime_,
         xl |-> l.i.sat.d_xli_ + RateT(l.i.sat.d_xldot_t_, t - l.i.sat.d_atime_)
                  + Quot(Mul(l.i.sat.d_xndot_t_,
                             (t - l.i.sat.d_atime_) * (t - l.i.sat.d_atime_)), 2 * U),
         temp |-> -l.sec.xnodes + s.d_gsto_ + RateT(THDT, t)] @@ l}}

\* DeepSpaceSecular, step 3 of 4: the loop
DeepSpaceSecular2(s, t, xll, omgasm, xnodes, em, xinc, xn, l) ==
    UNION {DeepSpaceSecular3(s, t, xll, omgasm, xnodes, em, xinc, xn, n) : n \in {
        [i |-> IF StepNeeded(t - l.r.d_atime_)
                 THEN IntegrateLoop(l.r, t, IF t - l.r.d_atime_ >= 0 THEN STEP ELSE -STEP,
                                    0)
                 ELSE [sat |-> l.r, steps |-> 0]] @@ l}}

\* DeepSpaceSecular, step 2 of 4: the restart test
DeepSpaceSecular1(s, t, xll, omgasm, xnodes, em, xinc, xn, l) ==
    IF SecularEnds(s)
    THEN {[sat |-> s, v |-> l.sec, resonant |-> FALSE, restart |-> FALSE,
               atime0 |-> s.d_atime_, steps |-> 0]}
    ELSE
    UNION {DeepSpaceSecular2(s, t, xll, omgasm, xnodes, em, xinc, xn, n) : n \in {
        [restart |-> RestartNeeded(s, t),
         r |-> IF RestartNeeded(s, t) THEN RestartFromEpoch(s) ELSE s] @@ l}}

\* SGP4::DeepSpaceSecular: the object and the six in-out arguments after
\* the call, with what the integrator did: whether it restarted from the
\* epoch, d_atime_ after the restart test and the passes of its loop
DeepSpaceSecular(s, t, xll, omgasm, xnodes, em, xinc, xn) ==
    CHOOSE r \in
      UNION {DeepSpaceSecular1(s, t, xll, omgasm, xnodes, em, xinc, xn, n) : n \in {
        [sec |-> [xll |-> xll + SecT(s.d_ssl_, t),
                    omgasm |-> omgasm + SecT(s.d_ssg_, t),
                    xnodes |-> xnodes + SecT(s.d_ssh_, t),
                    em |-> em + SecT(s.d_sse_, t),
                    xinc |-> xinc + SecT(s.d_ssi_, t), xn |-> xn]]}} : TRUE

\* The mean longitude of the body frozen at its epoch value
MeanLongitudeAtEpoch(first_run, t, zm0, zn) == zm0

\* The mean longitude the terms of a body are evaluated at,
\* src/SGP4.cpp:951-953 and 967-969: zm0 + zn * t, replaced by zm0 while
\* first_run_ is set
MeanLongitudeOfBody(first_run, t, zm0, zn) ==
    IF first_run THEN zm0 ELSE zm0 + RateT(zn, t)

\* BodyPeriodics, step 4 of 4: f2, f3
BodyPeriodics3(first_run, t, zm0, zn, ze, c, l) ==
    {[pe |-> Mul(c.e2, n.f2) + Mul(c.e3, n.f3),
      pinc |-> Mul(c.i2, n.f2) + Mul(c.i3, n.f3),
      pl |-> Mul(c.l2, n.f2) + Mul(c.l3, n.f3) + Mul(c.l4, n.sinzf),
      pgh |-> Mul(c.gh2, n.f2) + Mul(c.gh3, n.f3) + Mul(c.gh4, n.sinzf),
      ph |-> Mul(c.h2, n.f2) + Mul(c.h3, n.f3), zm |-> n.zm]
        : n \in {
        [f2 |-> Quot(Mul(l.sinzf, l.sinzf), 2) - 250000,
         f3 |-> -Mul(Quot(l.sinzf, 2), Cos(l.zf))] @@ l}}

\* BodyPeriodics, step 3 of 4: sinzf
BodyPeriodics2(first_run, t, zm0, zn, ze, c, l) ==
    UNION {BodyPeriodics3(first_run, t, zm0, zn, ze, c, n) : n \in {
        [sinzf |-> Sin(l.zf)] @@ l}}

\* BodyPeriodics, step 2 of 4: zf
BodyPeriodics1(first_run, t, zm0, zn, ze, c, l) ==
    UNION {BodyPeriodics2(first_run, t, zm0, zn, ze, c, n) : n \in {
        [zf |-> l.zm + 2 * Mul(ze, Sin(l.zm))] @@ l}}

\* One body's periodic terms in DeepSpaceCalculateLunarSolarTerms, in 1e-9:
\* zm0 its mean longitude at the epoch, zn its rate, ze its eccentricity and
\* c its five pairs of coefficients with the two sinzf coefficients; zm is
\* the mean longitude the terms were evaluated at
BodyPeriodics(first_run, t, zm0, zn, ze, c) ==
    CHOOSE r \in
      UNION {BodyPeriodics1(first_run, t, zm0, zn, ze, c, n) : n \in {
        [zm |-> MeanLongitudeOfBody(first_run, t, zm0, zn)]}} : TRUE

\* SGP4::DeepSpaceCalculateLunarSolarTerms: (pe, pinc, pl, pgh, ph) in 1e-9
\* and the mean longitudes zms of the sun and zml of the moon they were
\* evaluated at
DeepSpaceCalculateLunarSolarTerms(s, t) ==
    CHOOSE r \in
      {[pe |-> n.sun.pe + n.moon.pe, pinc |-> n.sun.pinc + n.moon.pinc,
        pl |-> n.sun.pl + n.moon.pl, pgh |-> n.sun.pgh + n.moon.pgh,
        ph |-> n.sun.ph + n.moon.ph, zms |-> n.sun.zm, zml |-> n.moon.zm]
          : n \in {
        [sun |-> BodyPeriodics(s.first_run_, t, s.d_zmos_, ZNS, ZES,
                     [e2 |-> s.d_se2_, e3 |-> s.d_se3_, i2 |-> s.d_si2_,
                      i3 |-> s.d_si3_, l2 |-> s.d_sl2_, l3 |-> s.d_sl3_,
                      l4 |-> s.d_sl4_, gh2 |-> s.d_sgh2_, gh3 |-> s.d_sgh3_,
                      gh4 |-> s.d_sgh4_, h2 |-> s.d_sh2_, h3 |-> s.d_sh3_]),
         moon |-> BodyPeriodics(s.first_run_, t, s.d_zmol_, ZNL, ZEL,
                     [e2 |-> s.d_ee2_, e3 |-> s.d_e3_, i2 |-> s.d_xi2_,
                      i3 |-> s.d_xi3_, l2 |-> s.d_xl2_, l3 |-> s.d_xl3_,
                      l4 |-> s.d_xl4_, gh2 |-> s.d_xgh2_, gh3 |-> s.d_xgh3_,
                      gh4 |-> s.d_xgh4_, h2 |-> s.d_xh2_, h3 |-> s.d_xh3_])]}} : TRUE

\* DeepSpacePeriodics, step 6 of 6: xnodes in the quadrant of oldxnodes
DeepSpacePeriodics5(s, t, em, xinc, omgasm, xnodes, xll, l) ==
    {[em |-> em + n.pe, xinc |-> n.xinc1,
      omgasm |-> n.xls - (xll + n.pl) - Mul(n.cosis, n.xn1),
      xnodes |-> n.xn1, xll |-> xll + n.pl,
      first_run |-> FALSE, zms |-> n.p.zms, zml |-> n.p.zml]
        : n \in {
        [xn1 |-> IF Abs(l.oldxnodes - l.xn0) > PI
                   THEN IF l.xn0 < l.oldxnodes THEN l.xn0 + TWOPI ELSE l.xn0 - TWOPI
                   ELSE l.xn0] @@ l}}

\* DeepSpacePeriodics, step 5 of 6: atan2(alfdp, betdp) in [0, 2 pi)
DeepSpacePeriodics4(s, t, em, xinc, omgasm, xnodes, xll, l) ==
    UNION {DeepSpacePeriodics5(s, t, em, xinc, omgasm, xnodes, xll, n) : n \in {
        [xn0 |-> NonNegativeAngle(Atan2(l.alfdp, l.betdp))] @@ l}}

\* DeepSpacePeriodics, step 4 of 6: alfdp, betdp, xls
DeepSpacePeriodics3(s, t, em, xinc, omgasm, xnodes, xll, l) ==
    UNION {DeepSpacePeriodics4(s, t, em, xinc, omgasm, xnodes, xll, n) : n \in {
        [alfdp |-> Mul(l.sinis, l.sinok) + Mul(l.ph, l.cosok) + Mul3(l.pinc, l.cosis, l.sinok),
         betdp |-> Mul(l.sinis, l.cosok) - Mul(l.ph, l.sinok) + Mul3(l.pinc, l.cosis, l.cosok),
         xls |-> xll + omgasm + Mul(l.cosis, l.oldxnodes)
                   + l.pl + l.pgh - Mul3(l.pinc, l.oldxnodes, l.sinis)] @@ l}}

\* DeepSpacePeriodics, step 3 of 6: the Lyddane modification, src/SGP4.cpp:1040-1080
DeepSpacePeriodics2(s, t, em, xinc, omgasm, xnodes, xll, l) ==
    IF l.xinc1 >= 200000
    THEN {[em |-> em + l.pe, xinc |-> l.xinc1,
               omgasm |-> omgasm + l.pgh - Mul(l.cosis, Div(l.ph, l.sinis)),
               xnodes |-> xnodes + Div(l.ph, l.sinis), xll |-> xll + l.pl,
               first_run |-> FALSE, zms |-> l.p.zms, zml |-> l.p.zml]}
    ELSE
    UNION {DeepSpacePeriodics3(s, t, em, xinc, omgasm, xnodes, xll, n) : n \in {
        [sinok |-> Sin(xnodes),
         cosok |-> Cos(xnodes),
         oldxnodes |-> Fmod2p(xnodes)] @@ l}}

\* DeepSpacePeriodics, step 2 of 6: the terms in micro-units and the perturbed inclination
DeepSpacePeriodics1(s, t, em, xinc, omgasm, xnodes, xll, l) ==
    IF s.first_run_
    THEN {[em |-> em, xinc |-> xinc, omgasm |-> omgasm, xnodes |-> xnodes,
               xll |-> xll, first_run |-> TRUE, zms |-> l.p.zms, zml |-> l.p.zml]}
    ELSE
    UNION {DeepSpacePeriodics2(s, t, em, xinc, omgasm, xnodes, xll, n) : n \in {
        [pe |-> Quot(l.p.pe, 1000),
         pinc |-> Quot(l.p.pinc, 1000),
         pl |-> Quot(l.p.pl, 1000),
         pgh |-> Quot(l.p.pgh, 1000),
         ph |-> Quot(l.p.ph, 1000),
         xinc1 |-> xinc + Quot(l.p.pinc, 1000),
         sinis |-> Sin(xinc + Quot(l.p.pinc, 1000)),
         cosis |-> Cos(xinc + Quot(l.p.pinc, 1000))] @@ l}}

\* SGP4::DeepSpacePeriodics: the five in-out arguments after the call, with
\* first_run_ as the call found it and the mean longitudes the terms were
\* evaluated at
DeepSpacePeriodics(s, t, em, xinc, omgasm, xnodes, xll) ==
    CHOOSE r \in
      UNION {DeepSpacePeriodics1(s, t, em, xinc, omgasm, xnodes, xll, n) : n \in {
        [p |-> DeepSpaceCalculateLunarSolarTerms(s, t)]}} : TRUE

\* Vector::Vector(x, y, z); nan marks components that are NaN, which arise
\* from arithmetic on a zero semi-major axis
Vector(x, y, z) == [nan |-> FALSE, x |-> x, y |-> y, z |-> z]
NaNVector == [nan |-> TRUE, x |-> 0, y |-> 0, z |-> 0]

\* One pass of the Newton-Raphson loop: the correction of epw in pass i
\* from f, fdot and esine
DeltaEpw(i, f, fdot, esine, max_newton_naphson) ==
    IF i = 0
    THEN IF Div(f, fdot) > max_newton_naphson THEN max_newton_naphson
         ELSE IF Div(f, fdot) < -max_newton_naphson
         THEN -max_newton_naphson
         ELSE Div(f, fdot)
    ELSE Div(f, fdot + Mul(Quot(esine, 2), Div(f, fdot)))

\* An end of the loop one pass late
KeplerLoopEndsLate(i, f) == Abs(f) < 1 \/ i = 10

\* The end of the Newton-Raphson loop after pass i, src/SGP4.cpp:495 and
\* 503: |f| < 1e-12 has cleared kepler_running or i + 1 < 10 is false.
\* The tolerance 1e-12 is below the unit: |f| < 1e-12 is f = 0 here.
KeplerLoopEnds(i, f) == Abs(f) < 1 \/ i = 9

\* The Newton-Raphson loop, src/SGP4.cpp:495-530, from pass i on: what the
\* last pass left in sinepw, cosepw, ecose and esine, and the passes made
RECURSIVE KeplerLoop(_, _, _, _, _, _)

\* KeplerLoop, step 3 of 3: f
KeplerLoop2(i, epw, capu, axn, ayn, max_newton_naphson, l) ==
    {IF KeplerLoopEnds(i, n.f)
      THEN [sinepw |-> n.sinepw, cosepw |-> n.cosepw, ecose |-> n.ecose,
            esine |-> n.esine, passes |-> i + 1, f |-> n.f]
      ELSE KeplerLoop(i + 1,
                      epw + DeltaEpw(i, n.f, U - n.ecose, n.esine, max_newton_naphson),
                      capu, axn, ayn, max_newton_naphson)
        : n \in {
        [f |-> capu - epw + l.esine] @@ l}}

\* KeplerLoop, step 2 of 3: ecose, esine
KeplerLoop1(i, epw, capu, axn, ayn, max_newton_naphson, l) ==
    UNION {KeplerLoop2(i, epw, capu, axn, ayn, max_newton_naphson, n) : n \in {
        [ecose |-> Mul(axn, l.cosepw) + Mul(ayn, l.sinepw),
         esine |-> Mul(axn, l.sinepw) - Mul(ayn, l.cosepw)] @@ l}}

KeplerLoop(i, epw, capu, axn, ayn, max_newton_naphson) ==
    CHOOSE r \in
      UNION {KeplerLoop1(i, epw, capu, axn, ayn, max_newton_naphson, n) : n \in {
        [sinepw |-> Sin(epw),
         cosepw |-> Cos(epw)]}} : TRUE

\* Eci::Eci(date, position, velocity)
Eci(date, position, velocity) ==
    [date |-> date, position |-> position, velocity |-> velocity]

\* Eci::Eci(): the object a caller passes to its first FindPosition
DefaultEci == Eci(JulianDefault, Vector(0, 0, 0), Vector(0, 0, 0))

\* a component of the position in metres: rk * c * XKMPER
Position(rk, c) == Mul(Mul(rk, c), XKMPER)

\* a component of the velocity in mm/s: (rdotk * c + rfdotk * d) * XKMPER / 60
Velocity(rdotk, rfdotk, c, d) ==
    Quot(Mul(Quot(Mul(rdotk, c) + Mul(rfdotk, d), 10), XKMPER), 60)

\* What a FindPosition call that went no further than its first statements
\* has to tell: no test made, no loop entered
NoTrace ==
    [model |-> "none", tsince |-> 0,
     resonant |-> FALSE, restart |-> FALSE, atime_in |-> 0, atime0 |-> 0,
     steps |-> 0,
     xn_tested |-> FALSE, xn |-> 0, xl_tested |-> FALSE, xl |-> 0,
     e_tested |-> FALSE, e |-> 0, e0 |-> 0, sse_t |-> 0, tempe |-> 0,
     periodics |-> FALSE, first_run |-> FALSE, zms |-> 0, zml |-> 0,
     em_tested |-> FALSE, em |-> 0,
     xinc_p |-> 0, xnodes_p |-> 0, omgasm_p |-> 0, xll_p |-> 0,
     xincl |-> 0, xnode |-> 0, omega |-> 0, xl_in |-> 0,
     cosio |-> 0, sinio |-> 0,
     ecc |-> 0, kepler |-> FALSE, passes |-> 0, f |-> 0,
     pl_tested |-> FALSE, pl |-> 0, rk_tested |-> FALSE, rk |-> 0,
     assigned |-> FALSE]

\* What the model keeps of a * (1.0 - elsq) when elsq is infinite
MinusInfinity == -2147483647

\* the decay test, src/SGP4.cpp:567: rk < 1.0
Decayed(rk) == rk < U

\* CalculateFinalPositionVelocity, step 12 of 12: ux to vz
CalculateFinalPositionVelocity11(s, eci, tsince, e, a, omega, xl, xnode, xincl, xlcof, aycof, x3thm1, x1mth2, x7thm1, cosio, sinio, l) ==
    {[eci |-> Eci(AddMin(s.epoch_, tsince),
                   Vector(Position(n.rk, n.ux), Position(n.rk, n.uy), Position(n.rk, n.uz)),
                   Vector(Velocity(n.rdotk, n.rfdotk, n.ux, n.vx),
                          Velocity(n.rdotk, n.rfdotk, n.uy, n.vy),
                          Velocity(n.rdotk, n.rfdotk, n.uz, n.vz))),
      exc |-> NoException,
      obs |-> [ecc |-> e, kepler |-> TRUE, passes |-> n.k.passes, f |-> n.k.f,
               pl_tested |-> TRUE, pl |-> n.pl, rk_tested |-> TRUE, rk |-> n.rk,
               assigned |-> TRUE]]
        : n \in {
        [ux |-> Mul(l.xmx, l.sinuk) + Mul(l.cosnok, l.cosuk),
         uy |-> Mul(l.xmy, l.sinuk) + Mul(l.sinnok, l.cosuk),
         uz |-> Mul(l.sinik, l.sinuk),
         vx |-> Mul(l.xmx, l.cosuk) - Mul(l.cosnok, l.sinuk),
         vy |-> Mul(l.xmy, l.cosuk) - Mul(l.sinnok, l.sinuk),
         vz |-> Mul(l.sinik, l.cosuk)] @@ l}}

\* CalculateFinalPositionVelocity, step 11 of 12: xmx, xmy
CalculateFinalPositionVelocity10(s, eci, tsince, e, a, omega, xl, xnode, xincl, xlcof, aycof, x3thm1, x1mth2, x7thm1, cosio, sinio, l) ==
    UNION {CalculateFinalPositionVelocity11(s, eci, tsince, e, a, omega, xl, xnode, xincl, xlcof, aycof, x3thm1, x1mth2, x7thm1, cosio, sinio, n) : n \in {
        [xmx |-> -Mul(l.sinnok, l.cosik),
         xmy |-> Mul(l.cosnok, l.cosik)] @@ l}}

\* CalculateFinalPositionVelocity, step 10 of 12: the orientation vectors
CalculateFinalPositionVelocity9(s, eci, tsince, e, a, omega, xl, xnode, xincl, xlcof, aycof, x3thm1, x1mth2, x7thm1, cosio, sinio, l) ==
    IF Decayed(l.rk)
    THEN {[eci |-> eci, exc |-> "Error: #6 Satellite decayed (rk < 1.0)",
               obs |-> [ecc |-> e, kepler |-> TRUE, passes |-> l.k.passes, f |-> l.k.f,
                        pl_tested |-> TRUE, pl |-> l.pl, rk_tested |-> TRUE,
                        rk |-> l.rk]]}
    ELSE
    UNION {CalculateFinalPositionVelocity10(s, eci, tsince, e, a, omega, xl, xnode, xincl, xlcof, aycof, x3thm1, x1mth2, x7thm1, cosio, sinio, n) : n \in {
        [sinuk |-> Sin(l.uk),
         cosuk |-> Cos(l.uk),
         sinik |-> Sin(l.xinck),
         cosik |-> Cos(l.xinck),
         sinnok |-> Sin(l.xnodek),
         cosnok |-> Cos(l.xnodek)] @@ l}}

\* CalculateFinalPositionVelocity, step 9 of 12: the short periodics
CalculateFinalPositionVelocity8(s, eci, tsince, e, a, omega, xl, xnode, xincl, xlcof, aycof, x3thm1, x1mth2, x7thm1, cosio, sinio, l) ==
    UNION {CalculateFinalPositionVelocity9(s, eci, tsince, e, a, omega, xl, xnode, xincl, xlcof, aycof, x3thm1, x1mth2, x7thm1, cosio, sinio, n) : n \in {
        [rk |-> Mul(l.r, U - Quot(Mul3(MulDiv(l.temp2, 3, 2), l.betal, x3thm1), 1000))
                  + Quot(Mul3(Quot(l.temp1, 2), x1mth2, l.cos2u), 1000),
         uk |-> l.u - Quot(Mul3(Quot(l.temp2, 4), x7thm1, l.sin2u), 1000),
         xnodek |-> xnode + Quot(Mul3(MulDiv(l.temp2, 3, 2), cosio, l.sin2u), 1000),
         xinck |-> xincl
                     + Quot(Mul(Mul3(MulDiv(l.temp2, 3, 2), cosio, sinio), l.cos2u),
                            1000),
         rdotk |-> l.rdot - Mul3(Mul(l.xn, Quot(l.temp1, 1000)), x1mth2, l.sin2u),
         rfdotk |-> l.rfdot + Mul(Mul(l.xn, Quot(l.temp1, 1000)),
                                  Mul(x1mth2, l.cos2u) + MulDiv(x3thm1, 3, 2))] @@ l}}

\* CalculateFinalPositionVelocity, step 8 of 12: u, sin2u, cos2u
CalculateFinalPositionVelocity7(s, eci, tsince, e, a, omega, xl, xnode, xincl, xlcof, aycof, x3thm1, x1mth2, x7thm1, cosio, sinio, l) ==
    UNION {CalculateFinalPositionVelocity8(s, eci, tsince, e, a, omega, xl, xnode, xincl, xlcof, aycof, x3thm1, x1mth2, x7thm1, cosio, sinio, n) : n \in {
        [u |-> Atan2(l.sinu, l.cosu),
         sin2u |-> 2 * Mul(l.sinu, l.cosu),
         cos2u |-> 2 * Mul(l.cosu, l.cosu) - U] @@ l}}

\* CalculateFinalPositionVelocity, step 7 of 12: rdot, rfdot, cosu, sinu, temp2
CalculateFinalPositionVelocity6(s, eci, tsince, e, a, omega, xl, xnode, xincl, xlcof, aycof, x3thm1, x1mth2, x7thm1, cosio, sinio, l) ==
    UNION {CalculateFinalPositionVelocity7(s, eci, tsince, e, a, omega, xl, xnode, xincl, xlcof, aycof, x3thm1, x1mth2, x7thm1, cosio, sinio, n) : n \in {
        [rdot |-> Mul(XKE, Mul3(Sqrt(a), l.k.esine, l.temp1r)),
         rfdot |-> Mul(XKE, Mul(Sqrt(l.pl), l.temp1r)),
         cosu |-> Mul(Mul(a, l.temp1r), l.k.cosepw - l.axn + Mul3(l.ayn, l.k.esine, l.temp3)),
         sinu |-> Mul(Mul(a, l.temp1r), l.k.sinepw - l.ayn - Mul3(l.axn, l.k.esine, l.temp3)),
         temp2 |-> Mul(l.temp1, l.temp)] @@ l}}

\* CalculateFinalPositionVelocity, step 6 of 12: temp1r, temp3, temp1
CalculateFinalPositionVelocity5(s, eci, tsince, e, a, omega, xl, xnode, xincl, xlcof, aycof, x3thm1, x1mth2, x7thm1, cosio, sinio, l) ==
    UNION {CalculateFinalPositionVelocity6(s, eci, tsince, e, a, omega, xl, xnode, xincl, xlcof, aycof, x3thm1, x1mth2, x7thm1, cosio, sinio, n) : n \in {
        [temp1r |-> Div(U, l.r),
         temp3 |-> Div(U, U + l.betal),
         temp1 |-> Mul(CK2N, l.temp)] @@ l}}

\* CalculateFinalPositionVelocity, step 5 of 12: r, betal, temp
CalculateFinalPositionVelocity4(s, eci, tsince, e, a, omega, xl, xnode, xincl, xlcof, aycof, x3thm1, x1mth2, x7thm1, cosio, sinio, l) ==
    IF l.pl < 0
    THEN {[eci |-> eci, exc |-> "Error: #4 (pl < 0.0)",
               obs |-> [ecc |-> e, kepler |-> TRUE, passes |-> l.k.passes, f |-> l.k.f,
                        pl_tested |-> TRUE, pl |-> l.pl]]}
    ELSE
    UNION {CalculateFinalPositionVelocity5(s, eci, tsince, e, a, omega, xl, xnode, xincl, xlcof, aycof, x3thm1, x1mth2, x7thm1, cosio, sinio, n) : n \in {
        [r |-> Mul(a, U - l.k.ecose),
         betal |-> Sqrt(l.tempq),
         temp |-> Div(U, l.pl)] @@ l}}

\* CalculateFinalPositionVelocity, step 4 of 12: the solution of Kepler's equation
CalculateFinalPositionVelocity3(s, eci, tsince, e, a, omega, xl, xnode, xincl, xlcof, aycof, x3thm1, x1mth2, x7thm1, cosio, sinio, l) ==
    UNION {CalculateFinalPositionVelocity4(s, eci, tsince, e, a, omega, xl, xnode, xincl, xlcof, aycof, x3thm1, x1mth2, x7thm1, cosio, sinio, n) : n \in {
        [k |-> KeplerLoop(0, l.capu, l.capu, l.axn, l.ayn, MulDiv(Sqrt(l.elsq), 5, 4)),
         tempq |-> U - l.elsq,
         pl |-> Mul(a, U - l.elsq)] @@ l}}

\* CalculateFinalPositionVelocity, step 3 of 12: elsq, capu
CalculateFinalPositionVelocity2(s, eci, tsince, e, a, omega, xl, xnode, xincl, xlcof, aycof, x3thm1, x1mth2, x7thm1, cosio, sinio, l) ==
    UNION {CalculateFinalPositionVelocity3(s, eci, tsince, e, a, omega, xl, xnode, xincl, xlcof, aycof, x3thm1, x1mth2, x7thm1, cosio, sinio, n) : n \in {
        [elsq |-> Mul(l.axn, l.axn) + Mul(l.ayn, l.ayn),
         capu |-> Fmod(l.xlt - xnode, TWOPI)] @@ l}}

\* CalculateFinalPositionVelocity, step 2 of 12: xlt, ayn
CalculateFinalPositionVelocity1(s, eci, tsince, e, a, omega, xl, xnode, xincl, xlcof, aycof, x3thm1, x1mth2, x7thm1, cosio, sinio, l) ==
    UNION {CalculateFinalPositionVelocity2(s, eci, tsince, e, a, omega, xl, xnode, xincl, xlcof, aycof, x3thm1, x1mth2, x7thm1, cosio, sinio, n) : n \in {
        [xlt |-> xl + Mul3(l.temp0, xlcof, l.axn),
         ayn |-> Mul(e, Sin(omega)) + Mul(l.temp0, aycof)] @@ l}}

\* SGP4::CalculateFinalPositionVelocity: the Eci assigned (position in
\* metres, velocity in mm/s) or the exception thrown, and in obs the
\* values it tested.  With a = 0, 1 / (a * beta * beta) is infinite and its
\* products with the zero coefficients are NaN: no comparison is true and
\* the Eci assigned has NaN components, after 10 passes of the loop (f is
\* NaN).  With e = 1, beta is 0 and 1 / (a * beta * beta) is
\* infinite again: aynl, ayn and elsq are infinite, the loop makes its 10
\* passes on a NaN and pl = a * (1 - elsq) is minus infinity, which the
\* test of pl throws on; with aycof = 0 they are NaN and no test is true.
\* XKE is multiplied last in rdot and rfdot, to stay within 32 bits; temp1
\* and temp2 are in 1e-9.
CalculateFinalPositionVelocity(s, eci, tsince, e, a, omega, xl, xnode, xincl, xlcof, aycof, x3thm1, x1mth2, x7thm1, cosio, sinio) ==
    CHOOSE r \in (
      IF a = 0
      THEN {[eci |-> Eci(AddMin(s.epoch_, tsince), NaNVector, NaNVector),
                 exc |-> NoException,
                 obs |-> [ecc |-> e, kepler |-> TRUE, passes |-> 10,
                          assigned |-> TRUE]]}
      ELSE
      IF e = U
      THEN {IF aycof = 0
                THEN [eci |-> Eci(AddMin(s.epoch_, tsince), NaNVector, NaNVector),
                      exc |-> NoException,
                      obs |-> [ecc |-> e, kepler |-> TRUE, passes |-> 10,
                               assigned |-> TRUE]]
                ELSE [eci |-> eci, exc |-> "Error: #4 (pl < 0.0)",
                      obs |-> [ecc |-> e, kepler |-> TRUE, passes |-> 10,
                               pl_tested |-> TRUE, pl |-> MinusInfinity]]}
      ELSE
      UNION {CalculateFinalPositionVelocity1(s, eci, tsince, e, a, omega, xl, xnode, xincl, xlcof, aycof, x3thm1, x1mth2, x7thm1, cosio, sinio, n) : n \in {
        [xn |-> Div(XKE, Pow15(a)),
         axn |-> Mul(e, Cos(omega)),
         temp0 |-> Div(U, Mul3(a, Sqrt(U - Mul(e, e)), Sqrt(U - Mul(e, e))))]}}) : TRUE

\* c * t^2 for a coefficient in 1e-14 / min^2, in micro-units
SqT(c, t) == Quot(Mul(c, t * t), 100)

\* i_xlcof_ recomputed from the perturbed inclination, src/SGP4.cpp:329-333
PerturbedXlcof(a3ovk2, sinio, cosio) ==
    IF Abs(cosio + U) > 0
    THEN Div(Mul(Mul(Quot(a3ovk2, 8), sinio), 3 * U + 5 * cosio), U + cosio)
    ELSE Mul(Mul(Quot(a3ovk2, 8), sinio), 3 * U + 5 * cosio) * 666666666

\* a test of the mean longitude that lets zero pass
MeanLongitudeNegative(xl) == xl < 0

\* the test of the mean longitude, src/SGP4.cpp:420: xl <= 0.0
MeanLongitudeNotPositive(xl) == xl <= 0

\* a test of the propagated eccentricity without the tolerance below zero
EccentricityDriftedNoTolerance(e) == e >= U \/ e < 0

\* the test of the propagated eccentricity, src/SGP4.cpp:301 and 427:
\* e >= 1.0 || e < -0.001
EccentricityDrifted(e) == e >= U \/ e < -1000

\* The reflection without the half turns of the node and the perigee
ReflectInclinationOnly(xincl, xnode, omgadf) ==
    [xincl |-> Abs(xincl), xnode |-> xnode, omgadf |-> omgadf]

\* xincl, xnode and omgadf after src/SGP4.cpp:327-331: a negative
\* inclination is negated, the node gains pi and the perigee loses pi
ReflectInclination(xincl, xnode, omgadf) ==
    IF xincl < 0
    THEN [xincl |-> -xincl, xnode |-> xnode + PI, omgadf |-> omgadf - PI]
    ELSE [xincl |-> xincl, xnode |-> xnode, omgadf |-> omgadf]

\* FindPositionSDP4, step 9 of 9: position and velocity
FindPositionSDP48(s, eci, tsince, l) ==
    {[sat |-> n.d.sat, eci |-> n.c.eci, exc |-> n.c.exc, obs |-> n.c.obs @@ n.o4]
        : n \in {
        [c |-> CalculateFinalPositionVelocity(l.d.sat, eci, tsince, l.p.em, l.a, l.o4.omega,
                     l.o4.xl_in, l.o4.xnode, l.o4.xincl,
                     PerturbedXlcof(s.i_a3ovk2_, l.perturbed_sinio, l.perturbed_cosio),
                     Mul(Quot(s.i_a3ovk2_, 4), l.perturbed_sinio),
                     3 * Mul(l.perturbed_cosio, l.perturbed_cosio) - U,
                     U - Mul(l.perturbed_cosio, l.perturbed_cosio),
                     7 * Mul(l.perturbed_cosio, l.perturbed_cosio) - U,
                     l.o4.cosio, l.o4.sinio)] @@ l}}

\* FindPositionSDP4, step 8 of 9: what is handed on
FindPositionSDP47(s, eci, tsince, l) ==
    UNION {FindPositionSDP48(s, eci, tsince, n) : n \in {
        [o4 |-> [xinc_p |-> l.p.xinc, xnodes_p |-> l.p.xnodes, omgasm_p |-> l.p.omgasm,
                   xll_p |-> l.p.xll, xincl |-> l.rf.xincl, xnode |-> l.rf.xnode,
                   omega |-> l.rf.omgadf, xl_in |-> l.p.xll + l.rf.omgadf + l.rf.xnode,
                   cosio |-> l.perturbed_cosio, sinio |-> l.perturbed_sinio] @@ l.o3] @@ l}}

\* FindPositionSDP4, step 7 of 9: the perturbed values
FindPositionSDP46(s, eci, tsince, l) ==
    IF l.p.em < 0 \/ l.p.em > U
    THEN {[sat |-> l.d.sat, eci |-> eci, exc |-> "Error: #3 (e < 0.0 || e > 1.0)",
               obs |-> l.o3]}
    ELSE
    UNION {FindPositionSDP47(s, eci, tsince, n) : n \in {
        [perturbed_sinio |-> Sin(l.rf.xincl),
         perturbed_cosio |-> Cos(l.rf.xincl)] @@ l}}

\* FindPositionSDP4, step 6 of 9: xincl, xnode, omgadf
FindPositionSDP45(s, eci, tsince, l) ==
    UNION {FindPositionSDP46(s, eci, tsince, n) : n \in {
        [rf |-> ReflectInclination(l.p.xinc, l.p.xnodes, l.p.omgasm),
         o3 |-> [periodics |-> TRUE, first_run |-> l.p.first_run, zms |-> l.p.zms,
                   zml |-> l.p.zml, em_tested |-> TRUE, em |-> l.p.em] @@ l.o2] @@ l}}

\* FindPositionSDP4, step 5 of 9: the periodic effects
FindPositionSDP44(s, eci, tsince, l) ==
    IF EccentricityDrifted(l.e1)
    THEN {[sat |-> l.d.sat, eci |-> eci,
               exc |-> "Error: #1 (e >= 1.0 || e < -0.001)", obs |-> l.o2]}
    ELSE
    UNION {FindPositionSDP45(s, eci, tsince, n) : n \in {
        [p |-> DeepSpacePeriodics(l.d.sat, tsince, IF l.e1 < 1 THEN 1 ELSE l.e1,
                                    l.d.v.xinc, l.d.v.omgasm, l.d.v.xnodes,
                                    l.d.v.xll + Quot(Mul(s.recovered_mean_motion_, l.templ),
                                                   100))] @@ l}}

\* FindPositionSDP4, step 4 of 9: a, e
FindPositionSDP43(s, eci, tsince, l) ==
    IF l.d.v.xn <= 0
    THEN {[sat |-> l.d.sat, eci |-> eci, exc |-> "Error: #2 (xn <= 0.0)",
               obs |-> l.o1]}
    ELSE
    UNION {FindPositionSDP44(s, eci, tsince, n) : n \in {
        [a |-> Mul(PowTwoThird(Div(XKE, l.d.v.xn)), Pow2(l.tempa)),
         e1 |-> l.d.v.em - l.tempe,
         o2 |-> [e_tested |-> TRUE] @@ l.o1] @@ l}}

\* FindPositionSDP4, step 3 of 9: what the call has to tell so far
FindPositionSDP42(s, eci, tsince, l) ==
    UNION {FindPositionSDP43(s, eci, tsince, n) : n \in {
        [o1 |-> [model |-> "SDP4", tsince |-> tsince, resonant |-> l.d.resonant,
                   restart |-> l.d.restart, atime_in |-> s.d_atime_,
                   atime0 |-> l.d.atime0, steps |-> l.d.steps,
                   xn_tested |-> TRUE, xn |-> l.d.v.xn,
                   e |-> l.d.v.em - l.tempe, e0 |-> s.eccentricity_,
                   sse_t |-> l.d.v.em - s.eccentricity_, tempe |-> l.tempe] @@ NoTrace] @@ l}}

\* FindPositionSDP4, step 2 of 9: the secular effects
FindPositionSDP41(s, eci, tsince, l) ==
    UNION {FindPositionSDP42(s, eci, tsince, n) : n \in {
        [d |-> DeepSpaceSecular(s, tsince, l.xmdf, l.omgadf, l.xnode,
                                  s.eccentricity_, s.inclination_,
                                  s.recovered_mean_motion_)] @@ l}}

\* SGP4::FindPositionSDP4: the object, the Eci assigned and the exception,
\* and in obs the values the call tested.  templ is in 1e-4 min.
FindPositionSDP4(s, eci, tsince) ==
    CHOOSE r \in
      UNION {FindPositionSDP41(s, eci, tsince, n) : n \in {
        [xmdf |-> s.mean_anomoly_ + RateT(s.i_xmdot_, tsince),
         omgadf |-> s.argument_perigee_ + RateT(s.i_omgdot_, tsince),
         xnode |-> s.ascending_node_ + RateT(s.i_xnodot_, tsince)
                     + SqT(s.i_xnodcf_, tsince),
         tempa |-> U - RateT(s.i_c1_, tsince),
         tempe |-> Mul(s.bstar_, RateT(s.i_c4_, tsince)),
         templ |-> Mul(s.i_t2cof_, tsince * tsince)]}} : TRUE

\* FindPositionSGP4, step 7 of 7: position and velocity
FindPositionSGP46(s, eci, tsince, l) ==
    IF MeanLongitudeNotPositive(l.xl)
    THEN {[sat |-> s, eci |-> eci, exc |-> "Error: #2 (xl <= 0.0)", obs |-> l.o1]}
    ELSE
    IF EccentricityDrifted(l.e1)
    THEN {[sat |-> s, eci |-> eci, exc |-> "Error: #1 (e >= 1.0 || e < -0.001)",
               obs |-> l.o2]}
    ELSE
    {[sat |-> s, eci |-> n.c.eci, exc |-> n.c.exc, obs |-> n.c.obs @@ n.o2]
        : n \in {
        [c |-> CalculateFinalPositionVelocity(s, eci, tsince,
                     IF l.e1 < 1 THEN 1 ELSE l.e1, l.a, l.omega, l.xl,
                     l.xnode, s.inclination_, s.i_xlcof_, s.i_aycof_, s.i_x3thm1_,
                     s.i_x1mth2_, s.i_x7thm1_, s.i_cosio_, s.i_sinio_)] @@ l}}

\* FindPositionSGP4, step 6 of 7: what the call has to tell so far
FindPositionSGP45(s, eci, tsince, l) ==
    UNION {FindPositionSGP46(s, eci, tsince, n) : n \in {
        [o1 |-> [model |-> "SGP4", tsince |-> tsince, atime_in |-> s.d_atime_,
                   atime0 |-> s.d_atime_, xl_tested |-> TRUE, xl |-> l.xl,
                   e |-> l.e1, e0 |-> s.eccentricity_, tempe |-> l.tempe] @@ NoTrace,
         o2 |-> [model |-> "SGP4", tsince |-> tsince, atime_in |-> s.d_atime_,
                   atime0 |-> s.d_atime_, xl_tested |-> TRUE, xl |-> l.xl,
                   e_tested |-> TRUE, e |-> l.e1, e0 |-> s.eccentricity_,
                   tempe |-> l.tempe] @@ NoTrace] @@ l}}

\* FindPositionSGP4, step 5 of 7: a, e, xl
FindPositionSGP44(s, eci, tsince, l) ==
    UNION {FindPositionSGP45(s, eci, tsince, n) : n \in {
        [a |-> Mul(s.recovered_semi_major_axis_, Pow2(l.tempa)),
         e1 |-> s.eccentricity_ - l.tempe,
         xl |-> l.xmp + l.omega + l.xnode
                  + Quot(Mul(s.recovered_mean_motion_, l.templ), 100)] @@ l}}

\* FindPositionSGP4, step 4 of 7: tempe
FindPositionSGP43(s, eci, tsince, l) ==
    UNION {FindPositionSGP44(s, eci, tsince, n) : n \in {
        [tempe |-> IF l.full
                     THEN l.tempe0 + Mul3(s.bstar_, s.n_c5_, Sin(l.xmp) - s.n_sinmo_)
                     ELSE l.tempe0] @@ l}}

\* FindPositionSGP4, step 3 of 7: xmp, omega
FindPositionSGP42(s, eci, tsince, l) ==
    UNION {FindPositionSGP43(s, eci, tsince, n) : n \in {
        [xmp |-> l.xmdf + l.temp,
         omega |-> l.omgadf - l.temp] @@ l}}

\* FindPositionSGP4, step 2 of 7: the terms left out of the simple model
FindPositionSGP41(s, eci, tsince, l) ==
    UNION {FindPositionSGP42(s, eci, tsince, n) : n \in {
        [temp |-> IF l.full
                    THEN RateT(s.n_omgcof_, tsince)
                         + Mul(s.n_xmcof_,
                               Pow3(U + Mul(s.i_eta_, Cos(l.xmdf))) - s.n_delmo_)
                    ELSE 0,
         tempa |-> IF l.full
                     THEN l.tempa0 - SqT(s.n_d2_, tsince)
                          - Mul(Mul(s.n_d3_, l.tsq), tsince)
                          - Quot(Mul(Mul(s.n_d4_, l.tsq), l.tsq), 10000)
                     ELSE l.tempa0,
         templ |-> IF l.full
                     THEN l.templ0
                          + Quot(Mul(Mul(s.n_t3cof_, l.tsq), 1000 * tsince), 10)
                          + Quot(Mul(Mul(s.n_t4cof_, l.tsq), l.tsq), 100)
                          + Mul(Mul(Mul(s.n_t5cof_, l.tsq), l.tsq), tsince)
                     ELSE l.templ0] @@ l}}

\* SGP4::FindPositionSGP4
FindPositionSGP4(s, eci, tsince) ==
    CHOOSE r \in
      UNION {FindPositionSGP41(s, eci, tsince, n) : n \in {
        [xmdf |-> s.mean_anomoly_ + RateT(s.i_xmdot_, tsince),
         omgadf |-> s.argument_perigee_ + RateT(s.i_omgdot_, tsince),
         tsq |-> tsince * tsince,
         xnode |-> s.ascending_node_ + RateT(s.i_xnodot_, tsince)
                     + SqT(s.i_xnodcf_, tsince),
         tempa0 |-> U - RateT(s.i_c1_, tsince),
         tempe0 |-> Mul(s.bstar_, RateT(s.i_c4_, tsince)),
         templ0 |-> Mul(s.i_t2cof_, tsince * tsince),
         full |-> ~s.i_use_simple_model_]}} : TRUE

\* a FindPosition that dates the caller's Eci before it propagates
FindPositionDatingFirst(s, eci, tsince) ==
    IF s.i_use_deep_space_
    THEN FindPositionSDP4(s, Eci(AddMin(s.epoch_, tsince), eci.position,
                                 eci.velocity), tsince)
    ELSE FindPositionSGP4(s, Eci(AddMin(s.epoch_, tsince), eci.position,
                                 eci.velocity), tsince)

\* SGP4::FindPosition(Eci&, double)
FindPosition(s, eci, tsince) ==
    IF s.i_use_deep_space_ THEN FindPositionSDP4(s, eci, tsince)
    ELSE FindPositionSGP4(s, eci, tsince)

\* a FindPosition(Eci&, const Julian&) that takes the span from the date to
\* the epoch
FindPositionDateSpanSwapped(s, eci, date) ==
    FindPosition(s, eci, SpanMin(s.epoch_, date))

\* SGP4::FindPosition(Eci&, const Julian&)
FindPositionDate(s, eci, date) ==
    FindPosition(s, eci, SpanMin(date, s.epoch_))

--------------------------------------------------------------------------
(* The element sets and the times the calls are made with *)

\* Tle: the values its accessors return (angles in micro-radians, the mean
\* motion in micro-revolutions per day, the epoch as a Julian date)
Tle(ma, raan, argp, ecc, incl, mm, bstar, epoch) ==
    [MeanAnomaly |-> ma, RightAscendingNode |-> raan,
     ArgumentPerigee |-> argp, Eccentricity |-> ecc, Inclination |-> incl,
     MeanMotion |-> mm, BStar |-> bstar, Epoch |-> epoch]

\* no Tle: what the caller holds before its first SetTle
NoTle == Tle(0, 0, 0, 0, 0, 0, 0, 0)

Catalogue ==
    {\* geosynchronous, inclination below 0.2 rad
     Tle(1000000, 2000000, 3000000, 700, 101000, 1002700, 100, Epoch0),
     \* geosynchronous and all but equatorial: the periodic terms take the
     \* inclination below zero up to half a day after the epoch
     Tle(1000000, 2000000, 3000000, 700, 25, 1002700, 100, Epoch0),
     \* 12 hour, e0 = 0.78: the perigee is below the surface
     Tle(0, 2000000, 4900000, 780000, 1100000, 2006000, 100, Epoch1),
     \* 12 hour, e0 = 0.5 and just below
     Tle(500000, 1000000, 4900000, 500000, 1100000, 2006000, 100, Epoch0),
     Tle(500000, 1000000, 4900000, 499999, 1100000, 2006000, 100, Epoch0),
     \* period 225.00 minutes and just below
     Tle(1000000, 2000000, 3000000, 700, 901000, 6400200, 100, Epoch0),
     Tle(1000000, 2000000, 3000000, 700, 901000, 6400400, 100, Epoch0),
     \* low orbits: perigee 400 km, and just below 220 km with a drag term
     \* of 0.025 and of -0.025, which takes the eccentricity below -1e-3
     \* within a day after and before the epoch
     Tle(1000000, 2000000, 3000000, 700, 901000, 15500000, 100, Epoch0),
     Tle(1000000, 2000000, 3000000, 700, 901000, 16183200, 25000, Epoch0),
     Tle(1000000, 2000000, 3000000, 700, 901000, 16183200, -25000, Epoch0),
     \* eccentricity below 0 and above 1 - 1e-3, and 1 - 1e-3 itself: an
     \* orbit of 7.5 days that the periodic terms take above e = 1
     Tle(1000000, 2000000, 3000000, -1, 901000, 15500000, 100, Epoch0),
     Tle(1000000, 2000000, 3000000, 999001, 901000, 15500000, 100, Epoch0),
     Tle(3141593, 2000000, 5000000, 999000, 500000, 135800, 100, Epoch0),
     \* the same orbit with the eccentricity that the periodic terms take to
     \* 1 itself one integrator step after the epoch
     Tle(3141593, 2000000, 5000000, 998964, 500000, 135800, 100, Epoch0),
     \* inclination below 0 and above pi
     Tle(1000000, 2000000, 3000000, 700, -1, 15500000, 100, Epoch1),
     Tle(1000000, 2000000, 3000000, 700, 3200000, 15500000, 100, Epoch1)}

MaxSteps == 2

\* minutes since epoch: around every integrator step up to MaxSteps
Times ==
    {k * STEP + r : k \in -MaxSteps .. MaxSteps, r \in {0, STEP - 1}}
    \cup {-1000, 2000}

Dates == {Epoch0 - STEP, Epoch0 + 100}

--------------------------------------------------------------------------
(* The state machine: one SGP4 object and its caller *)

VARIABLES
    sat,    \* the members of the SGP4 object
    eci,    \* the Eci the caller passed to its latest FindPosition
    exc,    \* the exception the latest call threw, or NoException
    call,   \* the latest call: its name and the minutes since epoch asked for
    tle,    \* the Tle of the latest SetTle
    obs     \* what the latest FindPosition tested on its way

vars == <<sat, eci, exc, call, tle, obs>>

Init ==
    /\ sat \in NewSGP4
    /\ eci = DefaultEci
    /\ exc = NoException
    /\ call = [op |-> "SGP4", tsince |-> 0]
    /\ tle = NoTle
    /\ obs = NoTrace

\* sgp4.SetTle(t)
CallSetTle ==
    \E t \in Catalogue :
        \E r \in {SetTle(sat, t)} :
            /\ sat' = r.sat
            /\ exc' = r.exc
            /\ call' = [op |-> "SetTle", tsince |-> 0]
            /\ tle' = t
            /\ eci' = DefaultEci
            /\ obs' = NoTrace

\* sgp4.FindPosition(eci, tsince) with a default-constructed eci (the call
\* never reads it)
CallFindPosition ==
    \E t \in Times :
        \E r \in {FindPosition(sat, DefaultEci, t)} :
            /\ sat' = r.sat
            /\ eci' = r.eci
            /\ exc' = r.exc
            /\ call' = [op |-> "FindPosition", tsince |-> t]
            /\ obs' = r.obs
            /\ UNCHANGED tle

\* sgp4.FindPosition(eci, date)
CallFindPositionDate ==
    \E d \in Dates :
        \E r \in {FindPositionDate(sat, DefaultEci, d)} :
            /\ sat' = r.sat
            /\ eci' = r.eci
            /\ exc' = r.exc
            /\ call' = [op |-> "FindPositionDate",
                        tsince |-> SpanMin(d, sat.epoch_)]
            /\ obs' = r.obs
            /\ UNCHANGED tle

Next == CallSetTle \/ CallFindPosition \/ CallFindPositionDate

Spec == Init /\ [][Next]_vars

--------------------------------------------------------------------------
(* Properties *)

FindPositionCalls == {"FindPosition", "FindPositionDate"}

\* the latest call was a FindPosition on the resonant element set tle
PropagatedResonant ==
    /\ call.op \in FindPositionCalls
    /\ tle # NoTle
    /\ sat.d_resonance_flag_

\* C1: for a resonant element set, the Eci or the error of a FindPosition
\* call, whatever calls came before it, is the one FindPosition gives as
\* the first call after SetTle with the same Tle on a new object
C1_PathIndependence ==
    PropagatedResonant =>
        \A j \in NewSGP4 :
            \A fresh \in {FindPosition(SetTle(j, tle).sat, DefaultEci,
                                       call.tsince)} :
                /\ exc = fresh.exc
                /\ exc = NoException => eci = fresh.eci

\* C1: a position at +2000 minutes, two integrator steps from the epoch
C1_Witness ==
    /\ PropagatedResonant
    /\ call.tsince = 2000
    /\ exc = NoException
    /\ sat.d_atime_ = 2 * STEP

\* C1: a call on a resonant element set that ended with an error
C1_WitnessError ==
    /\ PropagatedResonant
    /\ exc # NoException
    /\ sat.d_atime_ # 0

\* C2: a FindPosition call, returning or throwing, changes no member
\* other than d_atime_, d_xli_, d_xni_, d_xndot_t_, d_xnddt_t_, d_xldot_t_
C2_Frame ==
    [][call'.op \in FindPositionCalls =>
           \A f \in Members \ IntegratorMembers : sat'[f] = sat[f]]_vars

\* C2: a FindPosition call that moved the integrator
C2_Witness ==
    /\ PropagatedResonant
    /\ sat.d_atime_ # 0
    /\ sat.d_xli_ # sat.d_xlamo_
    /\ sat.d_xndot_t_ # sat.d_xndot_0_

\* C3: the object a successful SetTle leaves is the one SetTle with the
\* same Tle leaves on a newly constructed object, whatever was called
\* before
C3_SetTleHistoryIndependent ==
    (call.op = "SetTle" /\ exc = NoException) =>
        \A j \in NewSGP4 : sat = SetTle(j, tle).sat

\* C3: a successful SetTle of a resonant element set
C3_Witness ==
    /\ call.op = "SetTle"
    /\ exc = NoException
    /\ sat.d_resonance_flag_
    /\ sat.d_xndot_0_ # 0

\* the integrator is at the epoch
IntegratorAtEpoch ==
    /\ sat.d_atime_ = 0
    /\ sat.d_xli_ = sat.d_xlamo_
    /\ sat.d_xni_ = sat.recovered_mean_motion_

\* C4: when a successful SetTle returns, d_atime_ = 0, d_xli_ = d_xlamo_
\* and d_xni_ = n'' all hold if and only if d_resonance_flag_ is set
C4_IntegratorAtEpochIffResonant ==
    (call.op = "SetTle" /\ exc = NoException) =>
        (IntegratorAtEpoch <=> sat.d_resonance_flag_)

\* C4: a successful SetTle of a synchronous element set
C4_Witness ==
    /\ call.op = "SetTle"
    /\ exc = NoException
    /\ sat.d_synchronous_flag_
    /\ IntegratorAtEpoch
    /\ sat.d_xni_ # 0

\* C5: SetTle throws when the inclination of the Tle is below 0 or above pi
C5_InclinationRejected ==
    (call.op = "SetTle" /\ (tle.Inclination < 0 \/ tle.Inclination > PI))
        => exc # NoException

\* the inclination of the Tle is in [0, pi]
LegalInclination == 0 <= tle.Inclination /\ tle.Inclination <= PI

\* C6: with an inclination in [0, pi], SetTle throws exactly when the
\* eccentricity of the Tle is below 0 or above 1 - 1e-3, and after every
\* successful SetTle eccentricity_ is in the closed range [0, 1 - 1e-3]
C6_EccentricityClosedRange ==
    call.op = "SetTle" =>
        /\ LegalInclination =>
               (exc # NoException <=>
                    (tle.Eccentricity < 0 \/ tle.Eccentricity > 999000))
        /\ exc = NoException =>
               (0 <= sat.eccentricity_ /\ sat.eccentricity_ <= 999000)

\* C6: a successful SetTle with the eccentricity 1 - 1e-3
C6_Witness ==
    /\ call.op = "SetTle"
    /\ LegalInclination
    /\ exc = NoException
    /\ sat.eccentricity_ = 999000

\* C6 as written: after every successful SetTle eccentricity_ is in the
\* half-open range [0, 1 - 1e-3)
C6_EccentricityHalfOpenRange ==
    call.op = "SetTle" =>
        /\ LegalInclination =>
               (exc # NoException <=>
                    (tle.Eccentricity < 0 \/ tle.Eccentricity > 999000))
        /\ exc = NoException =>
               (0 <= sat.eccentricity_ /\ sat.eccentricity_ < 999000)

\* C7: a SetTle that throws leaves every member of an object that a
\* successful SetTle initialised (first_run_ is false) as it was
C7_FailedSetTleKeepsState ==
    [][(~sat.first_run_ /\ call'.op = "SetTle" /\ exc' # NoException)
           => sat' = sat]_vars

\* the mode flags of s are the ones its period and perigee call for
FlagsByPeriodAndPerigee(s) ==
    /\ s.i_use_deep_space_ = (s.period_ >= 22500)
    /\ s.i_use_simple_model_
           = (~s.i_use_deep_space_ /\ s.perigee_ < 220000)

\* C8: after a successful SetTle i_use_deep_space_ = (period >= 225) and
\* i_use_simple_model_ = (not deep space and perigee < 220); FindPosition
\* leaves both as they are and is FindPositionSDP4 when i_use_deep_space_
\* is set, FindPositionSGP4 otherwise
C8_ModeFlags ==
    [][/\ (call'.op = "SetTle" /\ exc' = NoException)
              => FlagsByPeriodAndPerigee(sat')
       /\ call'.op \in FindPositionCalls =>
              \A r \in {IF sat.i_use_deep_space_
                        THEN FindPositionSDP4(sat, DefaultEci, call'.tsince)
                        ELSE FindPositionSGP4(sat, DefaultEci,
                                              call'.tsince)} :
                  /\ sat'.i_use_deep_space_ = sat.i_use_deep_space_
                  /\ sat'.i_use_simple_model_ = sat.i_use_simple_model_
                  /\ sat' = r.sat /\ eci' = r.eci /\ exc' = r.exc]_vars

\* C8: a position of an element set with a period of 225.00 minutes
C8_Witness ==
    /\ call.op \in FindPositionCalls
    /\ exc = NoException
    /\ sat.period_ = 22500
    /\ sat.i_use_deep_space_
    /\ FlagsByPeriodAndPerigee(sat)

\* the members DeepSpaceInitialize writes when it initialises the integrator
EpochIntegratorMembers ==
    {"d_xfact_", "d_atime_", "d_xni_", "d_xli_",
     "d_xndot_0_", "d_xnddt_0_", "d_xldot_0_"}

C10_IntegratorClock ==
    PropagatedResonant =>
        /\ sat.d_atime_
               = Sgn(call.tsince) * STEP * (Abs(call.tsince) \div STEP)
        /\ Abs(call.tsince - sat.d_atime_) < STEP
        /\ \A j \in NewSGP4 :
               \A at \in {FindPosition(SetTle(j, tle).sat, DefaultEci,
                                       sat.d_atime_).sat} :
                   /\ sat.d_atime_ = at.d_atime_
                   /\ sat.d_xli_ = at.d_xli_
                   /\ sat.d_xni_ = at.d_xni_

\* C10: a call at t = 720 has stepped once
C10_Witness ==
    /\ PropagatedResonant
    /\ call.tsince = STEP
    /\ sat.d_atime_ = STEP
    /\ sat.d_xli_ # sat.d_xlamo_

EccentricityError == "Error: #1 (e >= 1.0 || e < -0.001)"

\* the test that precedes the one of the eccentricity has thrown: xn <= 0
\* in FindPositionSDP4, xl <= 0 in FindPositionSGP4
EarlierTestThrew ==
    \/ obs.model = "SDP4" /\ obs.xn <= 0
    \/ obs.model = "SGP4" /\ obs.xl <= 0

\* C11: in FindPositionSGP4 and in FindPositionSDP4 the propagated
\* eccentricity is e0 + sse * t - tempe (no sse * t in FindPositionSGP4),
\* and the call throws the eccentricity error exactly when that value is
\* >= 1 or < -1e-3 and the xn <= 0 or xl <= 0 test before it did not throw
C11_EccentricityTest ==
    call.op \in FindPositionCalls =>
        /\ obs.model \in {"SGP4", "SDP4"}
        /\ obs.model = "SGP4" => obs.sse_t = 0
        /\ obs.e = obs.e0 + obs.sse_t - obs.tempe
        /\ obs.e0 = sat.eccentricity_
        /\ obs.e_tested = ~EarlierTestThrew
        /\ (exc = EccentricityError)
               = (~EarlierTestThrew /\ (obs.e >= U \/ obs.e < -1000))

\* C11: a call that threw the eccentricity error, the drag term having
\* taken the eccentricity below -1e-3
C11_Witness ==
    /\ call.op \in FindPositionCalls
    /\ exc = EccentricityError
    /\ obs.e < -1000
    /\ obs.tempe > 0

\* C11: a call with a propagated eccentricity between -1e-3 and 0 that
\* returned a position
C11_WitnessTolerated ==
    /\ call.op \in FindPositionCalls
    /\ exc = NoException
    /\ obs.e_tested
    /\ -1000 <= obs.e /\ obs.e < 0

\* C11 as written: FindPosition throws the eccentricity error whenever the
\* propagated eccentricity is >= 1 or < -1e-3, and only then
C11_EccentricityErrorWhenever ==
    call.op \in FindPositionCalls =>
        ((exc = EccentricityError) = (obs.e >= U \/ obs.e < -1000))

\* the exception FindPosition throws with the values in obs, NoException if
\* none: the tests in the order the code makes them
ExceptionOfTests ==
    IF obs.model = "SDP4" /\ obs.xn <= 0 THEN "Error: #2 (xn <= 0.0)"
    ELSE IF obs.model = "SGP4" /\ obs.xl <= 0 THEN "Error: #2 (xl <= 0.0)"
    ELSE IF obs.e >= U \/ obs.e < -1000 THEN EccentricityError
    ELSE IF obs.model = "SDP4" /\ (obs.em < 0 \/ obs.em > U)
         THEN "Error: #3 (e < 0.0 || e > 1.0)"
    ELSE IF obs.pl_tested /\ obs.pl < 0 THEN "Error: #4 (pl < 0.0)"
    ELSE IF obs.rk_tested /\ obs.rk < U
         THEN "Error: #6 Satellite decayed (rk < 1.0)"
    ELSE NoException

\* C12: FindPosition tests xn <= 0 in FindPositionSDP4 only and xl <= 0 in
\* FindPositionSGP4 only, and p_l < 0 after either, and what it throws is
\* decided by these tests, the eccentricity test, the decay test and, in
\* FindPositionSDP4, the test e < 0 or e > 1 of the eccentricity that the
\* lunar and solar periodics leave
C12_FailuresOfFindPosition ==
    call.op \in FindPositionCalls =>
        /\ obs.model = (IF sat.i_use_deep_space_ THEN "SDP4" ELSE "SGP4")
        /\ obs.xn_tested = (obs.model = "SDP4")
        /\ obs.xl_tested = (obs.model = "SGP4")
        /\ obs.em_tested => obs.model = "SDP4"
        /\ exc = ExceptionOfTests

\* C12: p_l < 0 thrown
C12_Witness ==
    /\ call.op \in FindPositionCalls
    /\ exc = "Error: #4 (pl < 0.0)"
    /\ obs.pl_tested /\ obs.pl < 0

\* C12: xn <= 0 thrown by FindPositionSDP4
C12_WitnessXn ==
    /\ call.op \in FindPositionCalls
    /\ exc = "Error: #2 (xn <= 0.0)"
    /\ obs.model = "SDP4"

\* C12: xl <= 0 thrown by FindPositionSGP4 after a successful SetTle
C12_WitnessXl ==
    /\ call.op \in FindPositionCalls
    /\ exc = "Error: #2 (xl <= 0.0)"
    /\ obs.model = "SGP4" /\ obs.xl < 0
    /\ ~sat.first_run_

\* C12 as written: xn <= 0, xl <= 0, p_l < 0, the eccentricity error and
\* the decay error are the only exceptions of FindPosition
C12_OnlyFiveFailures ==
    (call.op \in FindPositionCalls /\ exc # NoException) =>
        exc \in {"Error: #2 (xn <= 0.0)", "Error: #2 (xl <= 0.0)",
                 "Error: #4 (pl < 0.0)", EccentricityError,
                 "Error: #6 Satellite decayed (rk < 1.0)"}

DecayError == "Error: #6 Satellite decayed (rk < 1.0)"

\* the square of the length of the vector v in units of 100 km, each
\* component cut to whole units
LengthSquared(v) ==
    (v.x \div 100000) * (v.x \div 100000)
    + (v.y \div 100000) * (v.y \div 100000)
    + (v.z \div 100000) * (v.z \div 100000)

\* C13: FindPosition throws the decay error exactly when no earlier test
\* threw and the radius r_k with the short-period terms is below 1 earth
\* radius; every Eci it assigns has r_k >= 1, a position no nearer to the
\* centre of the earth than 6000 km.  (With a = 0, the object a SetTle that
\* threw leaves, r_k is NaN, no test is true and the Eci assigned is NaN.)
C13_DecayedBelowOneRadius ==
    call.op \in FindPositionCalls =>
        /\ (exc = DecayError) = (obs.rk_tested /\ obs.rk < U)
        /\ obs.rk_tested
               = (exc \in {NoException, DecayError} /\ obs.pl_tested)
        /\ exc = NoException =>
               /\ obs.assigned /\ obs.rk_tested /\ obs.rk >= U
               /\ ~eci.position.nan
               /\ LengthSquared(eci.position) >= 3600

\* C13: the decay error of an orbit with its perigee below the surface
C13_Witness ==
    /\ call.op \in FindPositionCalls
    /\ exc = DecayError
    /\ 0 < obs.rk /\ obs.rk < U
    /\ sat.perigee_ < 0

\* C13: a position of the same kind of orbit further out
C13_WitnessAbove ==
    /\ call.op \in FindPositionCalls
    /\ exc = NoException
    /\ sat.perigee_ < 0
    /\ obs.rk >= U

\* C14: a FindPosition call that throws leaves the Eci of its caller as it
\* was passed, a default Eci or the Eci of an earlier call, and has not
\* assigned it; a call that returns has assigned it
C14_ErrorsLeaveEci ==
    [][call'.op \in FindPositionCalls =>
           /\ obs'.assigned = (exc' = NoException)
           /\ exc' # NoException =>
                  /\ eci' = DefaultEci
                  /\ FindPosition(sat, eci, call'.tsince).eci = eci]_vars

\* C14: a call that threw after the integrator had stepped, its Eci as the
\* caller constructed it
C14_Witness ==
    /\ PropagatedResonant
    /\ exc # NoException
    /\ sat.d_atime_ # 0
    /\ ~obs.assigned
    /\ eci = DefaultEci

C16_LoopsBounded ==
    call.op \in FindPositionCalls =>
        /\ obs.kepler => (1 <= obs.passes /\ obs.passes <= 10)
        /\ (obs.kepler /\ obs.passes < 10) => Abs(obs.f) < 1
        /\ obs.kepler = (obs.pl_tested \/ obs.assigned)
        /\ obs.atime0 = (IF obs.restart THEN 0 ELSE obs.atime_in)
        /\ obs.steps = (IF obs.resonant
                        THEN Abs(call.tsince - obs.atime0) \div STEP
                        ELSE 0)
        /\ obs.steps <= Abs(call.tsince) \div STEP
        /\ sat.d_atime_
               = obs.atime0
                 + Sgn(call.tsince - obs.atime0) * STEP * obs.steps
        /\ obs.resonant =>
               /\ Abs(call.tsince - sat.d_atime_)
                      = Abs(call.tsince - obs.atime0) - STEP * obs.steps
               /\ Abs(call.tsince - sat.d_atime_) < STEP
               /\ (call.tsince - sat.d_atime_)
                      * (call.tsince - obs.atime0) >= 0

\* C16: a call with 10 passes of the Newton-Raphson loop and two of the
\* integrator loop
C16_Witness ==
    /\ PropagatedResonant
    /\ obs.kepler /\ obs.passes = 10 /\ obs.f # 0
    /\ obs.restart /\ obs.steps = 2

\* C16: a call that went on from d_atime_ = 720 with one pass of the
\* integrator loop, and left the Newton-Raphson loop at its third pass
C16_WitnessContinued ==
    /\ PropagatedResonant
    /\ ~obs.restart /\ obs.atime_in = STEP /\ obs.steps = 1
    /\ obs.kepler /\ obs.passes = 3 /\ obs.f = 0

--------------------------------------------------------------------------
(* Two SGP4 objects, each propagated by a thread of its own.  Under
   SpecTwoObjects every variable holds one value for each object, and a
   FindPosition call is taken in the steps in which it reads and writes the
   members of its object: the restart of the integrator, each pass of its
   loop, and the rest of the call, which writes no member. *)

Instances == {1, 2}

\* a geosynchronous element set and a low orbit
TwoCatalogue ==
    {Tle(1000000, 2000000, 3000000, 700, 101000, 1002700, 100, Epoch0),
     Tle(1000000, 2000000, 3000000, 700, 901000, 15500000, 100, Epoch0)}

\* two and three integrator steps after the epoch
TwoTimes == {2 * STEP, 3 * STEP}

\* Integrator members held once for the whole class
IntegratorOfClass(self) == 1

\* The object whose integrator members a call on object self reads and
\* writes: they are non-static data members (src/SGP4.h:153-155, 165-167),
\* so it is the object itself
IntegratorOfObject(self) == self

\* the members a call on object self sees
This(self) ==
    Assign(sat[self],
           [f \in IntegratorMembers |-> sat[IntegratorOfObject(self)][f]])

\* the objects after a call on object self wrote the integrator members as
\* they are in s
Written(self, s) ==
    [j \in Instances |->
        IF j = IntegratorOfObject(self)
        THEN Assign(sat[j], [f \in IntegratorMembers |-> s[f]])
        ELSE sat[j]]

\* the locals of FindPositionSDP4 before its call of DeepSpaceSecular,
\* src/SGP4.cpp:276-285
SecularLocals(s, tsince) ==
    [xmdf |-> s.mean_anomoly_ + RateT(s.i_xmdot_, tsince),
     omgadf |-> s.argument_perigee_ + RateT(s.i_omgdot_, tsince),
     xnode |-> s.ascending_node_ + RateT(s.i_xnodot_, tsince)
               + SqT(s.i_xnodcf_, tsince),
     tempa |-> U - RateT(s.i_c1_, tsince),
     tempe |-> Mul(s.bstar_, RateT(s.i_c4_, tsince)),
     templ |-> Mul(s.i_t2cof_, tsince * tsince)]

\* the secular terms of DeepSpaceSecular, src/SGP4.cpp:1094-1098
SecularTerms(s, t, l) ==
    [xll |-> l.xmdf + SecT(s.d_ssl_, t),
     omgasm |-> l.omgadf + SecT(s.d_ssg_, t),
     xnodes |-> l.xnode + SecT(s.d_ssh_, t),
     em |-> s.eccentricity_ + SecT(s.d_sse_, t),
     xinc |-> s.inclination_ + SecT(s.d_ssi_, t),
     xn |-> s.recovered_mean_motion_]

\* one pass of the loop of DeepSpaceSecular, src/SGP4.cpp:1142-1154
IntegratorPass(s, delt) ==
    LET i == DeepSpaceIntegrator(s, delt, STEP2, s.d_xndot_t_,
                                 s.d_xnddt_t_, s.d_xldot_t_)
        dot == DeepSpaceCalcDotTerms(i)
    IN  Assign(i, [d_xndot_t_ |-> dot.xndot, d_xnddt_t_ |-> dot.xnddt,
                   d_xldot_t_ |-> dot.xldot])

\* the end of DeepSpaceSecular, src/SGP4.cpp:1160-1167
Interpolated(s, t, sec) ==
    LET ft == t - s.d_atime_
        xl == s.d_xli_ + RateT(s.d_xldot_t_, ft)
              + Quot(Mul(s.d_xndot_t_, ft * ft), 2 * U)
        temp == -sec.xnodes + s.d_gsto_ + RateT(THDT, t)
    IN  [sec EXCEPT
           !.xn = s.d_xni_ + Quot(Mul(s.d_xndot_t_, 1000 * ft), 100000)
                  + Quot(Mul(s.d_xnddt_t_, ft * ft), 200000),
           !.xll = IF s.d_synchronous_flag_
                   THEN xl + temp - sec.omgasm
                   ELSE xl + temp + temp]

\* the locals of a call that has not reached DeepSpaceSecular
NoLocals ==
    [sec |-> SecularTerms(ResetValues, 0, SecularLocals(ResetValues, 0)),
     resonant |-> FALSE, restart |-> FALSE, atime0 |-> 0, steps |-> 0,
     delt |-> STEP] @@ SecularLocals(ResetValues, 0)

\* the thread of an object between two calls, op the call it returned from
Returned(op, tsince, before, l) ==
    [op |-> op, tsince |-> tsince, pc |-> "idle", before |-> before,
     l |-> l]

InitTwo ==
    /\ sat \in [Instances -> NewSGP4]
    /\ eci = [self \in Instances |-> DefaultEci]
    /\ exc = [self \in Instances |-> NoException]
    /\ call = [self \in Instances |->
                  Returned("SGP4", 0, sat[self], NoLocals)]
    /\ tle = [self \in Instances |-> NoTle]
    /\ obs = [self \in Instances |-> NoTrace]

\* object self: SetTle(t), once for each object and outside every call of
\* FindPosition on it
TwoSetTle ==
    \E self \in Instances, t \in TwoCatalogue :
        /\ call[self].pc = "idle"
        /\ tle[self] = NoTle
        /\ \E r \in {SetTle(sat[self], t)} :
            /\ sat' = [sat EXCEPT ![self] = r.sat]
            /\ exc' = [exc EXCEPT ![self] = r.exc]
            /\ call' = [call EXCEPT
                          ![self] = Returned("SetTle", 0, r.sat, NoLocals)]
        /\ tle' = [tle EXCEPT ![self] = t]
        /\ eci' = [eci EXCEPT ![self] = DefaultEci]
        /\ obs' = [obs EXCEPT ![self] = NoTrace]

\* object self: FindPosition(eci, t) is entered with a default-constructed
\* eci and reads i_use_deep_space_, src/SGP4.cpp:245-251
TwoFindPosition ==
    \E self \in Instances, t \in TwoTimes :
        /\ call[self].pc = "idle"
        /\ call' = [call EXCEPT
                      ![self] = [op |-> "FindPosition", tsince |-> t,
                                 pc |-> IF This(self).i_use_deep_space_
                                        THEN "SDP4" ELSE "SGP4",
                                 before |-> sat[self], l |-> NoLocals]]
        /\ eci' = [eci EXCEPT ![self] = DefaultEci]
        /\ exc' = [exc EXCEPT ![self] = NoException]
        /\ obs' = [obs EXCEPT ![self] = NoTrace]
        /\ UNCHANGED <<sat, tle>>

\* object self: FindPositionSGP4, which writes no member
TwoFindPositionSGP4 ==
    \E self \in Instances :
        /\ call[self].pc = "SGP4"
        /\ \E r \in {FindPositionSGP4(This(self), DefaultEci,
                                      call[self].tsince)} :
            /\ eci' = [eci EXCEPT ![self] = r.eci]
            /\ exc' = [exc EXCEPT ![self] = r.exc]
            /\ obs' = [obs EXCEPT ![self] = r.obs]
        /\ call' = [call EXCEPT ![self].pc = "idle"]
        /\ UNCHANGED <<sat, tle>>

\* object self: FindPositionSDP4 up to the loop of DeepSpaceSecular, with
\* the restart of the integrator, src/SGP4.cpp:276-1124
TwoRestart ==
    \E self \in Instances :
        /\ call[self].pc = "SDP4"
        /\ LET s == This(self)
               t == call[self].tsince
               l0 == SecularLocals(s, t)
               sec == SecularTerms(s, t, l0)
               r == IF RestartNeeded(s, t) THEN RestartFromEpoch(s) ELSE s
           IN  IF ~s.d_resonance_flag_
               THEN /\ call' = [call EXCEPT
                                  ![self].pc = "position",
                                  ![self].l =
                                      [sec |-> sec, resonant |-> FALSE,
                                       restart |-> FALSE,
                                       atime0 |-> s.d_atime_, steps |-> 0,
                                       delt |-> STEP] @@ l0]
                    /\ UNCHANGED sat
               ELSE /\ call' = [call EXCEPT
                                  ![self].pc =
                                      IF StepNeeded(t - r.d_atime_)
                                      THEN "loop" ELSE "position",
                                  ![self].l =
                                      [sec |-> sec, resonant |-> TRUE,
                                       restart |-> RestartNeeded(s, t),
                                       atime0 |-> r.d_atime_, steps |-> 0,
                                       delt |-> IF t - r.d_atime_ >= 0
                                                THEN STEP ELSE -STEP]
                                      @@ l0]
                    /\ sat' = Written(self, r)
        /\ UNCHANGED <<eci, exc, tle, obs>>

\* object self: one pass of the loop of DeepSpaceSecular
TwoIntegrate ==
    \E self \in Instances :
        /\ call[self].pc = "loop"
        /\ \E next \in {IntegratorPass(This(self), call[self].l.delt)} :
            /\ sat' = Written(self, next)
            /\ call' = [call EXCEPT
                          ![self].pc =
                              IF StepNeeded(call[self].tsince
                                            - next.d_atime_)
                              THEN "loop" ELSE "position",
                          ![self].l.steps = @ + 1]
        /\ UNCHANGED <<eci, exc, tle, obs>>

\* object self: the end of DeepSpaceSecular and the rest of
\* FindPositionSDP4, which writes no member, src/SGP4.cpp:1160-1167 and
\* 291-369
TwoPosition ==
    \E self \in Instances :
        /\ call[self].pc = "position"
        /\ LET s == This(self)
               t == call[self].tsince
               l == call[self].l
               d == [sat |-> s,
                     v |-> IF l.resonant THEN Interpolated(s, t, l.sec)
                           ELSE l.sec,
                     resonant |-> l.resonant, restart |-> l.restart,
                     atime0 |-> l.atime0, steps |-> l.steps]
           IN  \E r \in FindPositionSDP42(s, DefaultEci, t, [d |-> d] @@ l) :
                   /\ eci' = [eci EXCEPT ![self] = r.eci]
                   /\ exc' = [exc EXCEPT ![self] = r.exc]
                   /\ obs' = [obs EXCEPT ![self] = r.obs]
        /\ call' = [call EXCEPT ![self].pc = "idle"]
        /\ UNCHANGED <<sat, tle>>

NextTwo ==
    \/ TwoSetTle
    \/ TwoFindPosition
    \/ TwoFindPositionSGP4
    \/ TwoRestart
    \/ TwoIntegrate
    \/ TwoPosition

SpecTwoObjects == InitTwo /\ [][NextTwo]_vars

\* the latest call on object self was a FindPosition and has returned
FindPositionReturned(self) ==
    call[self].op = "FindPosition" /\ call[self].pc = "idle"

\* C18: two SGP4 objects share no mutable state: whatever the steps of the
\* calls on the other object that ran in between, a FindPosition call that
\* has returned assigned the Eci, threw the exception and left its object
\* as the same call run alone on the object as it was when the call began;
\* and a call in progress has changed nothing of its object but the
\* integrator members.
C18_DistinctObjectsIndependent ==
    \A self \in Instances :
        /\ FindPositionReturned(self) =>
             \E r \in {FindPosition(call[self].before, DefaultEci,
                                    call[self].tsince)} :
                 /\ sat[self] = r.sat
                 /\ eci[self] = r.eci
                 /\ exc[self] = r.exc
        /\ call[self].op = "FindPosition" =>
             \A f \in Members \ IntegratorMembers :
                 sat[self][f] = call[self].before[f]
        /\ call[self].op # "FindPosition" => sat[self] = call[self].before

\* C18, the case: the call on object 1 restarted its integrator, made two
\* passes and returned while the call on object 2, of the same element set,
\* was between the two passes of its loop
C18_Witness ==
    /\ FindPositionReturned(1)
    /\ call[1].l.restart
    /\ call[1].l.steps = 2
    /\ exc[1] = NoException
    /\ sat[1].d_atime_ = 2 * STEP
    /\ call[2].pc = "loop"
    /\ call[2].l.steps = 1
    /\ sat[2].d_atime_ = STEP
    /\ tle[1] = tle[2]

\* C20: a FindPosition(t) on a resonant element set restarts the
\* integrator from the epoch (d_atime_ = 0, d_xli_ = d_xlamo_, d_xni_ the
\* recovered mean motion, the dot terms those of the epoch) exactly when
\* |t| < 720, or t * d_atime_ <= 0, or |t| < |d_atime_|, and then steps
\* from there; otherwise it steps from the members as they are, and
\* d_atime_ stays on its side of the epoch and comes no nearer to it.
C20_RestartRule ==
    [][(call'.op \in FindPositionCalls /\ obs'.resonant) =>
         LET t == call'.tsince
             from_epoch ==
                 \/ Abs(t) < 720
                 \/ t * sat.d_atime_ <= 0
                 \/ Abs(t) < Abs(sat.d_atime_)
             epoch == [d_atime_ |-> 0, d_xli_ |-> sat.d_xlamo_,
                       d_xni_ |-> sat.recovered_mean_motion_,
                       d_xndot_t_ |-> sat.d_xndot_0_,
                       d_xnddt_t_ |-> sat.d_xnddt_0_,
                       d_xldot_t_ |-> sat.d_xldot_0_] @@ sat
             start == IF from_epoch THEN epoch ELSE sat
             delt == IF t - start.d_atime_ >= 0 THEN 720 ELSE -720
         IN  /\ obs'.atime_in = sat.d_atime_
             /\ obs'.restart = from_epoch
             /\ obs'.atime0 = start.d_atime_
             /\ sat' = IF Abs(t - start.d_atime_) >= 720
                       THEN IntegrateLoop(start, t, delt, 0).sat
                       ELSE start
             /\ ~from_epoch =>
                  /\ sat'.d_atime_ * sat.d_atime_ > 0
                  /\ Abs(sat'.d_atime_) >= Abs(sat.d_atime_)
                  /\ Abs(sat'.d_atime_) <= Abs(t)]_vars

\* C20, the case: the integrator stood two steps after the epoch and the
\* call asked for one step after it, nearer to the epoch: it restarted and
\* made one step
C20_Witness ==
    /\ call.op = "FindPosition"
    /\ call.tsince = STEP
    /\ obs.resonant
    /\ obs.restart
    /\ obs.atime_in = 2 * STEP
    /\ obs.steps = 1
    /\ sat.d_atime_ = STEP
    /\ exc = NoException

\* C20, the other case: the integrator stood one step before the epoch and
\* the call asked for two steps before it: it went on from where it stood
C20_WitnessContinued ==
    /\ call.op = "FindPosition"
    /\ call.tsince = -2 * STEP
    /\ obs.resonant
    /\ ~obs.restart
    /\ obs.atime_in = -STEP
    /\ obs.atime0 = -STEP
    /\ obs.steps = 1
    /\ sat.d_atime_ = -2 * STEP

\* C21 (as stated): on every FindPosition call that reaches
\* CalculateFinalPositionVelocity, on the SGP4 path and on the SDP4 path,
\* the eccentricity handed to it satisfies 1e-6 <= e < 1, so that
\* beta = sqrt(1 - e * e) is not zero
C21_EccentricityInRange ==
    (call.op \in FindPositionCalls /\ obs.kepler) =>
        (obs.ecc >= 1 /\ obs.ecc < U)

\* C21, what the code keeps: on the SGP4 path the eccentricity handed on is
\* the tested one raised to 1e-6; on the SDP4 path the test and the raise to
\* 1e-6 come before the periodic term, and the sum handed on has only
\* passed 0 <= e <= 1
C21_EccentricityAsTested ==
    (call.op \in FindPositionCalls /\ obs.kepler) =>
        /\ obs.model = "SGP4" =>
             /\ obs.ecc = (IF obs.e < 1 THEN 1 ELSE obs.e)
             /\ obs.ecc >= 1 /\ obs.ecc < U
        /\ obs.model = "SDP4" =>
             /\ obs.ecc = obs.em
             /\ obs.e >= -1000 /\ obs.e < U
             /\ obs.ecc >= 0 /\ obs.ecc <= U

\* C21, the case: the SDP4 path handed on the eccentricity 1
C21_WitnessOne ==
    /\ call.op = "FindPosition"
    /\ obs.model = "SDP4"
    /\ obs.kepler
    /\ obs.e < U
    /\ obs.ecc = U
    /\ exc = "Error: #4 (pl < 0.0)"

\* the object after k passes of the loop of DeepSpaceSecular
RECURSIVE AfterPasses(_, _, _)
AfterPasses(s, delt, k) ==
    IF k = 0 THEN s ELSE AfterPasses(IntegratorPass(s, delt), delt, k - 1)

\* the cached dot terms of s are those of its d_atime_, d_xli_ and d_xni_
DotTermsCurrent(s) ==
    \E dot \in {DeepSpaceCalcDotTerms(s)} :
        /\ s.d_xndot_t_ = dot.xndot
        /\ s.d_xnddt_t_ = dot.xnddt
        /\ s.d_xldot_t_ = dot.xldot

\* C22: a successful SetTle of a resonant element set leaves the three cached
\* dot terms at zero, and yet every pass of the loop of DeepSpaceSecular and
\* its final interpolation read cached dot terms that are those of the
\* d_atime_, d_xli_ and d_xni_ of the moment: the epoch values when
\* d_atime_ = 0, the values recomputed after the last pass otherwise.
C22_DotTermsNeverStale ==
    [][/\ (call'.op = "SetTle" /\ exc' = NoException
           /\ sat'.d_resonance_flag_) =>
             /\ sat'.d_xndot_t_ = 0
             /\ sat'.d_xnddt_t_ = 0
             /\ sat'.d_xldot_t_ = 0
             /\ sat'.d_atime_ = 0
       /\ (call'.op \in FindPositionCalls /\ obs'.resonant) =>
            LET t == call'.tsince
                start == IF RestartNeeded(sat, t) THEN RestartFromEpoch(sat)
                         ELSE sat
                delt == IF t - start.d_atime_ >= 0 THEN STEP ELSE -STEP
            IN  /\ \A k \in 0 .. obs'.steps :
                     DotTermsCurrent(AfterPasses(start, delt, k))
                /\ sat' = AfterPasses(start, delt, obs'.steps)
                /\ sat'.d_atime_ = 0 =>
                     /\ sat'.d_xndot_t_ = sat'.d_xndot_0_
                     /\ sat'.d_xnddt_t_ = sat'.d_xnddt_0_
                     /\ sat'.d_xldot_t_ = sat'.d_xldot_0_]_vars

\* C22, the case: a call restarted the integrator of a resonant element set
\* and made two passes, and the cached dot terms are neither zero nor those
\* of the epoch
C22_Witness ==
    /\ PropagatedResonant
    /\ obs.restart
    /\ obs.steps = 2
    /\ sat.d_xndot_0_ # 0
    /\ sat.d_xndot_t_ # 0
    /\ sat.d_xndot_t_ # sat.d_xndot_0_
    /\ DotTermsCurrent(sat)

\* C22, the other case: the first call after SetTle, near the epoch, found
\* the cached dot terms at zero and left them at the epoch values
C22_WitnessAtEpoch ==
    /\ PropagatedResonant
    /\ obs.restart
    /\ obs.atime_in = 0
    /\ obs.steps = 0
    /\ sat.d_atime_ = 0
    /\ sat.d_xldot_0_ # 0
    /\ sat.d_xldot_t_ = sat.d_xldot_0_

\* C23: a FindPosition on an object whose element set is without resonance
\* (near-space, or deep-space with d_resonance_flag_ false) changes no
\* member: DeepSpaceSecular neither restarts nor steps the integrator, and
\* after any sequence of FindPosition calls the object is the one SetTle
\* left.
C23_NoResonanceNoChange ==
    [][(call'.op \in FindPositionCalls /\ ~sat.d_resonance_flag_) =>
         /\ sat' = sat
         /\ ~obs'.resonant
         /\ ~obs'.restart
         /\ obs'.steps = 0
         /\ tle # NoTle =>
              \A j \in NewSGP4 : sat' = SetTle(j, tle).sat]_vars

\* C23, the case: a deep-space element set without resonance was propagated
\* two integrator steps from the epoch, and the integrator members are as
\* SetTle left them
C23_Witness ==
    /\ call.op = "FindPosition"
    /\ call.tsince = 2 * STEP
    /\ exc = NoException
    /\ obs.model = "SDP4"
    /\ ~sat.d_resonance_flag_
    /\ sat.d_atime_ = 0
    /\ sat.d_xni_ = 0
    /\ sat.d_xli_ = 0
    /\ sat.d_xndot_t_ = 0

\* C23, the near-space case
C23_WitnessNearSpace ==
    /\ call.op = "FindPosition"
    /\ call.tsince = 2 * STEP + STEP - 1
    /\ exc = NoException
    /\ obs.model = "SGP4"
    /\ sat.recovered_mean_motion_ # 0
    /\ sat.d_atime_ = 0
    /\ sat.d_xni_ = 0

\* the members that only the integrator of a resonance reads or writes
\* besides its coefficients (src/SGP4.cpp:1281-1283)
ResonanceOnlyMembers ==
    ResonanceCoefficients \cup SynchronousCoefficients
    \cup {"d_xfact_", "d_xlamo_", "d_xli_", "d_xni_",
          "d_xndot_0_", "d_xnddt_0_", "d_xldot_0_",
          "d_xndot_t_", "d_xnddt_t_", "d_xldot_t_"}

\* the latest SetTle, which was given tle, returned without an exception
SetTleSucceeded == tle # NoTle /\ SetTle(sat, tle).exc = NoException

\* C24: in every state after a successful SetTle, an object without resonance
\* has d_del1_..d_del3_, d_d2201_..d_d5433_, d_xfact_, d_xlamo_, d_xli_,
\* d_xni_ and the epoch and cached dot terms at 0; a synchronous one has the
\* ten coefficients d_d2201_..d_d5433_ at 0, and one in the 12 hour resonance
\* has d_del1_..d_del3_ at 0.
C24_ResonanceOnlyFields ==
    SetTleSucceeded =>
        /\ ~sat.d_resonance_flag_ =>
             \A f \in ResonanceOnlyMembers : sat[f] = 0
        /\ (sat.d_resonance_flag_ /\ sat.d_synchronous_flag_) =>
             \A f \in ResonanceCoefficients : sat[f] = 0
        /\ (sat.d_resonance_flag_ /\ ~sat.d_synchronous_flag_) =>
             \A f \in SynchronousCoefficients : sat[f] = 0

\* C24, the case: an element set in the 12 hour resonance, with coefficients
\* other than zero, was propagated
C24_Witness ==
    /\ SetTleSucceeded
    /\ call.op = "FindPosition"
    /\ exc = NoException
    /\ sat.d_resonance_flag_
    /\ ~sat.d_synchronous_flag_
    /\ sat.d_d2201_ # 0
    /\ sat.d_d5433_ # 0
    /\ sat.d_xfact_ # 0
    /\ sat.d_del1_ = 0

\* C24, the synchronous case, with d_del1_..d_del3_ other than zero
C24_WitnessSynchronous ==
    /\ SetTleSucceeded
    /\ call.op = "FindPosition"
    /\ exc = NoException
    /\ sat.d_resonance_flag_
    /\ sat.d_synchronous_flag_
    /\ sat.d_del1_ # 0
    /\ sat.d_del2_ # 0
    /\ sat.d_del3_ # 0
    /\ sat.d_d2201_ = 0

\* C24, the deep-space case without resonance
C24_WitnessNoResonance ==
    /\ SetTleSucceeded
    /\ call.op = "FindPosition"
    /\ exc = NoException
    /\ sat.i_use_deep_space_
    /\ ~sat.d_resonance_flag_
    /\ sat.d_xfact_ = 0
    /\ sat.d_xlamo_ = 0

\* C25: on the SDP4 path CalculateFinalPositionVelocity is handed an
\* inclination that is never negative: an inclination that DeepSpacePeriodics
\* left negative is negated, with pi added to the node and pi subtracted from
\* the argument of perigee, and any other is handed on with the node and
\* the perigee as they were; the mean longitude handed on is the sum of the
\* mean anomaly, that perigee and that node, and the cos i and sin i handed
\* on are those of that inclination.
C25_InclinationReflected ==
    (call.op \in FindPositionCalls /\ obs.model = "SDP4" /\ obs.kepler) =>
        /\ obs.xincl >= 0
        /\ obs.xinc_p < 0 =>
             /\ obs.xincl = -obs.xinc_p
             /\ obs.xnode = obs.xnodes_p + PI
             /\ obs.omega = obs.omgasm_p - PI
        /\ obs.xinc_p >= 0 =>
             /\ obs.xincl = obs.xinc_p
             /\ obs.xnode = obs.xnodes_p
             /\ obs.omega = obs.omgasm_p
        /\ obs.xl_in = obs.xll_p + obs.omega + obs.xnode
        /\ obs.cosio = Cos(obs.xincl)
        /\ obs.sinio = Sin(obs.xincl)

\* C25, the case: the periodic terms left the inclination negative, and a
\* position was assigned
C25_Witness ==
    /\ call.op = "FindPosition"
    /\ exc = NoException
    /\ obs.model = "SDP4"
    /\ obs.assigned
    /\ obs.xinc_p < 0
    /\ obs.xincl > 0
    /\ obs.sinio > 0

\* C25, the same element set propagated to a time when the periodic terms
\* leave the inclination positive
C25_WitnessNotReflected ==
    /\ call.op = "FindPosition"
    /\ exc = NoException
    /\ obs.model = "SDP4"
    /\ obs.assigned
    /\ tle.Inclination = 25
    /\ obs.xinc_p > 0

====
